---- MODULE Spec2Model ----
(***************************************************************************)
(* Verification model of the discord2 client library core: the            *)
(* self-describing enum codec (enums.rs and the per-enum mapping tables)   *)
(* and the snowflake identifier (snowflake.rs).                            *)
(*                                                                         *)
(* The library is a set of pure conversions.  A behaviour of the model is  *)
(* the life of one value: Init draws an input (a wire payload, a named     *)
(* variant, a raw identifier or a point in time), every action applies one *)
(* conversion of the library to the current value and records its name in  *)
(* the trail.                                                              *)
(***************************************************************************)
EXTENDS Integers, Sequences, FiniteSets, TLC

VARIABLES
    ty,     \* the type the conversions are resolved for (the parameter T)
    input,  \* the value the chain started from
    trail,  \* names of the conversions applied so far, oldest first
    prev,   \* the value the last conversion was applied to
    cur     \* the current value

vars == <<ty, input, trail, prev, cur>>

(***************************************************************************)
(* Bounds of the model.                                                    *)
(***************************************************************************)
\* wire integers 0..MaxCode are fed to the integer enum decoders
MaxCode == 90
\* number of conversions applied to one input
MaxTrail == 4
\* small offsets 0..MaxSmall around the interesting points in time and
\* small raw identifiers
MaxSmall == 12

(***************************************************************************)
(* Result<T, E>                                                            *)
(***************************************************************************)
Ok(v) == [tag |-> "Ok", v |-> v]
Err(e) == [tag |-> "Err", e |-> e]

(***************************************************************************)
(* JSON values as serde_json hands them to Deserialize implementations.    *)
(***************************************************************************)
JUInt(n) == [tag |-> "Json", kind |-> "uint", n |-> n]
JNegInt(n) == [tag |-> "Json", kind |-> "negint", n |-> n]
JString(s) == [tag |-> "Json", kind |-> "string", s |-> s]
\* a JSON string whose characters the program inspects
JText(chars) == [tag |-> "Json", kind |-> "string", chars |-> chars]
JNull == [tag |-> "Json", kind |-> "null"]
JObject == [tag |-> "Json", kind |-> "object"]

DecodeError == [tag |-> "DecodeError"]

\* u64::deserialize: only a non-negative JSON integer is a u64
u64_deserialize(j) ==
    IF j.kind = "uint" THEN Ok(j.n) ELSE Err(DecodeError)

\* u64::serialize
u64_serialize(n) == JUInt(n)

\* String::deserialize: only a JSON string is a String
String_deserialize(j) ==
    IF j.kind = "string" THEN Ok(j.s) ELSE Err(DecodeError)

\* String::serialize
String_serialize(s) == JString(s)

(***************************************************************************)
(* enums.rs: errors and the two-state wrapper                              *)
(***************************************************************************)
EnumFromIntegerError_new(raw) == [raw |-> raw]

EnumFromIntegerError_inner(self) == self.raw

Parsed(t) == [state |-> "Parsed", t |-> t]
Raw(r) == [state |-> "Raw", r |-> r]

IntegerEnum(inner) == [tag |-> "IntegerEnum", inner |-> inner]

Variant(name) == [tag |-> "Variant", name |-> name]

(***************************************************************************)
(* 64-bit machine integers.  A u64 or an i64 is its 8 bytes, least         *)
(* significant first; an i64 is in two's complement, so its sign is the    *)
(* top bit of the last byte.                                               *)
(***************************************************************************)
U64Bytes == 8

\* the byte of x at position k, zero beyond either end
ByteAt(x, k) == IF k >= 1 /\ k <= U64Bytes THEN x[k] ELSE 0

\* the u64 of a natural number below 2^31
FromNat(n) ==
    <<n % 256, (n \div 256) % 256, (n \div 65536) % 256,
      (n \div 16777216) % 256, 0, 0, 0, 0>>

\* bit i of x, bit 0 the least significant
Bit(x, i) == (x[(i \div 8) + 1] \div (2^(i % 8))) % 2

\* the top bit (the sign bit of an i64)
TopBit(x) == Bit(x, 8 * U64Bytes - 1)

\* x >> n, 0 <= n < 64
Shr(x, n) ==
    LET q == n \div 8
        r == n % 8
        b(k) == (ByteAt(x, k + q) \div (2^r))
                + ((ByteAt(x, k + q + 1) % (2^r)) * (2^(8 - r)))
    IN  <<b(1), b(2), b(3), b(4), b(5), b(6), b(7), b(8)>>

\* x << n, 0 <= n < 64: the bits shifted out at the top are dropped
Shl(x, n) ==
    LET q == n \div 8
        r == n % 8
        b(k) == ((ByteAt(x, k - q) * (2^r)) % 256)
                + ((ByteAt(x, k - q - 1) * (2^r)) \div 256)
    IN  <<b(1), b(2), b(3), b(4), b(5), b(6), b(7), b(8)>>

\* a & b on the low n bits of two bytes
RECURSIVE AndBits(_, _, _)
AndBits(a, b, n) ==
    IF n = 0 THEN 0
    ELSE ((a % 2) * (b % 2)) + 2 * AndBits(a \div 2, b \div 2, n - 1)

\* x & y
BitAnd(x, y) ==
    LET b(k) == AndBits(x[k], y[k], 8)
    IN  <<b(1), b(2), b(3), b(4), b(5), b(6), b(7), b(8)>>

\* !x
BitNot(x) ==
    <<255 - x[1], 255 - x[2], 255 - x[3], 255 - x[4],
      255 - x[5], 255 - x[6], 255 - x[7], 255 - x[8]>>

\* the low n bytes of x + y + cin, and the carry out of them
RECURSIVE AddLow(_, _, _, _)
AddLow(x, y, cin, n) ==
    IF n = 0 THEN [sum |-> <<>>, carry |-> cin]
    ELSE LET lo == AddLow(x, y, cin, n - 1)
             s == x[n] + y[n] + lo.carry
         IN  [sum |-> Append(lo.sum, s % 256), carry |-> s \div 256]

\* x + y + cin modulo 2^64, with the carry out of the top byte
AddWithCarry(x, y, cin) == AddLow(x, y, cin, U64Bytes)

\* u64::wrapping_add
WrappingAdd(x, y) == AddWithCarry(x, y, 0).sum

\* u64::checked_sub: x - y as x + !y + 1, which carries out exactly when x >= y
CheckedSub(x, y) ==
    LET r == AddWithCarry(x, BitNot(y), 1)
    IN  IF r.carry = 0 THEN [tag |-> "None"] ELSE [tag |-> "Some", v |-> r.sum]

\* x < y on u64
Lt(x, y) == CheckedSub(x, y).tag = "None"

\* -x on i64
Neg(x) == AddWithCarry(BitNot(x), FromNat(0), 1).sum

\* the value of a decimal integer literal, digits most significant first;
\* the value of the leading digits is bound through a singleton set, so that
\* it is computed once before it is used
RECURSIVE Lit(_)
Lit(digits) ==
    IF digits = <<>> THEN FromNat(0)
    ELSE CHOOSE v \in { WrappingAdd(WrappingAdd(Shl(hi, 3), Shl(hi, 1)),
                                    FromNat(digits[Len(digits)])) :
                        hi \in {Lit(SubSeq(digits, 1, Len(digits) - 1))} } : TRUE

\* the value of a binary integer literal of 64 digits, most significant first
BinLit(digits) ==
    LET b(k) == LET top == 8 * U64Bytes - 8 * (k - 1)
                IN  digits[top] + 2 * digits[top - 1] + 4 * digits[top - 2]
                    + 8 * digits[top - 3] + 16 * digits[top - 4]
                    + 32 * digits[top - 5] + 64 * digits[top - 6]
                    + 128 * digits[top - 7]
    IN  <<b(1), b(2), b(3), b(4), b(5), b(6), b(7), b(8)>>

\* i64 -> u64 by `as u64`: a negative value becomes a large one
TryIntoU64_cast(x) == Ok(x)

\* i64 -> u64 by try_into: fails on a negative value
TryIntoU64(x) ==
    IF TopBit(x) = 1 THEN Err("TryFromIntError") ELSE Ok(x)

\* u64 -> i64 by try_into: fails above i64::MAX
TryIntoI64(x) ==
    IF TopBit(x) = 1 THEN Err("TryFromIntError") ELSE Ok(x)

\* `as u8`: the low 8 bits
AsU8(x) == x[1]

\* `as u16`: the low 16 bits
AsU16(x) == x[1] + 256 * x[2]

(***************************************************************************)
(* bitflags: a flags value is its bits                                     *)
(***************************************************************************)
\* the bit positions of the constants of the structure T
FlagBits(T) ==
    CASE T = "UserFlags" -> {0, 1, 2, 3, 6, 7, 8, 9, 10, 14, 16, 17}
      [] T = "Permissions" -> (0..32) \cup {34, 35, 36}

Flags(T, bits) == [tag |-> T, bits |-> bits]

\* T::all().bits(): the union of the constants
Flags_all(T) ==
    LET v(i) == IF i \in FlagBits(T) THEN 2^(i % 8) ELSE 0
        b(k) == v(8 * k - 8) + v(8 * k - 7) + v(8 * k - 6) + v(8 * k - 5)
                + v(8 * k - 4) + v(8 * k - 3) + v(8 * k - 2) + v(8 * k - 1)
    IN  <<b(1), b(2), b(3), b(4), b(5), b(6), b(7), b(8)>>

\* T::from_bits_truncate: the unknown bits are dropped
Flags_from_bits_truncate(T, bits) ==
    [tag |-> "Some", v |-> Flags(T, BitAnd(bits, Flags_all(T)))]

\* T::from_bits: None when a bit outside the constants is set
Flags_from_bits(T, bits) ==
    IF BitAnd(bits, BitNot(Flags_all(T))) = FromNat(0)
    THEN [tag |-> "Some", v |-> Flags(T, bits)]
    ELSE [tag |-> "None"]

\* TryFrom<u64> for UserFlags
UserFlags_try_from(u) ==
    LET r == Flags_from_bits("UserFlags", u)
    IN  IF r.tag = "Some" THEN Ok(r.v) ELSE Err(EnumFromIntegerError_new(u))

\* From<UserFlags> for u64
u64_from_UserFlags(uf) == uf.bits

(***************************************************************************)
(* Mapping tables of the concrete integer enums                            *)
(***************************************************************************)
AuditLogEvent_try_from(u) ==
    CASE u = 1 -> Ok("GuildUpdate")
      [] u = 10 -> Ok("ChannelCreate")
      [] u = 11 -> Ok("ChannelUpdate")
      [] u = 12 -> Ok("ChannelDelete")
      [] u = 13 -> Ok("ChannelOverwriteCreate")
      [] u = 14 -> Ok("ChannelOverwriteUpdate")
      [] u = 15 -> Ok("ChannelOverwriteDelete")
      [] u = 20 -> Ok("MemberKick")
      [] u = 21 -> Ok("MemberPrune")
      [] u = 22 -> Ok("MemberBanAdd")
      [] u = 23 -> Ok("MemberBanRemove")
      [] u = 24 -> Ok("MemberUpdate")
      [] u = 25 -> Ok("MemberRoleUpdate")
      [] u = 26 -> Ok("MemberMove")
      [] u = 27 -> Ok("MemberDisconnect")
      [] u = 28 -> Ok("BotAdd")
      [] u = 30 -> Ok("RoleCreate")
      [] u = 31 -> Ok("RoleUpdate")
      [] u = 32 -> Ok("RoleDelete")
      [] u = 40 -> Ok("InviteCreate")
      [] u = 41 -> Ok("InviteUpdate")
      [] u = 42 -> Ok("InviteDelete")
      [] u = 50 -> Ok("WebhookCreate")
      [] u = 51 -> Ok("WebhookUpdate")
      [] u = 52 -> Ok("WebhookDelete")
      [] u = 60 -> Ok("EmojiCreate")
      [] u = 61 -> Ok("EmojiUpdate")
      [] u = 62 -> Ok("EmojiDelete")
      [] u = 72 -> Ok("MessageDelete")
      [] u = 73 -> Ok("MessageBulkDelete")
      [] u = 74 -> Ok("MessagePin")
      [] u = 75 -> Ok("MessageUnpin")
      [] u = 80 -> Ok("IntegrationCreate")
      [] u = 81 -> Ok("IntegrationUpdate")
      [] u = 82 -> Ok("IntegrationDelete")
      [] OTHER -> Err(EnumFromIntegerError_new(u))

u64_from_AuditLogEvent(v) ==
    CASE v = "GuildUpdate" -> 1
      [] v = "ChannelCreate" -> 10
      [] v = "ChannelUpdate" -> 11
      [] v = "ChannelDelete" -> 12
      [] v = "ChannelOverwriteCreate" -> 13
      [] v = "ChannelOverwriteUpdate" -> 14
      [] v = "ChannelOverwriteDelete" -> 15
      [] v = "MemberKick" -> 20
      [] v = "MemberPrune" -> 21
      [] v = "MemberBanAdd" -> 22
      [] v = "MemberBanRemove" -> 23
      [] v = "MemberUpdate" -> 24
      [] v = "MemberRoleUpdate" -> 25
      [] v = "MemberMove" -> 26
      [] v = "MemberDisconnect" -> 27
      [] v = "BotAdd" -> 28
      [] v = "RoleCreate" -> 30
      [] v = "RoleUpdate" -> 31
      [] v = "RoleDelete" -> 32
      [] v = "InviteCreate" -> 40
      [] v = "InviteUpdate" -> 41
      [] v = "InviteDelete" -> 42
      [] v = "WebhookCreate" -> 50
      [] v = "WebhookUpdate" -> 51
      [] v = "WebhookDelete" -> 52
      [] v = "EmojiCreate" -> 60
      [] v = "EmojiUpdate" -> 61
      [] v = "EmojiDelete" -> 62
      [] v = "MessageDelete" -> 72
      [] v = "MessageBulkDelete" -> 73
      [] v = "MessagePin" -> 74
      [] v = "MessageUnpin" -> 75
      [] v = "IntegrationCreate" -> 80
      [] v = "IntegrationUpdate" -> 81
      [] v = "IntegrationDelete" -> 82

\* resources/channel.rs
ChannelKind_try_from(u) ==
    CASE u = 0 -> Ok("GuildText")
      [] u = 1 -> Ok("Dm")
      [] u = 2 -> Ok("GuildVoice")
      [] u = 3 -> Ok("GroupDm")
      [] u = 4 -> Ok("GuildCategory")
      [] u = 5 -> Ok("GuildNews")
      [] u = 6 -> Ok("GuildStore")
      [] u = 10 -> Ok("GuildNewsThread")
      [] u = 11 -> Ok("GuildPublicThread")
      [] u = 12 -> Ok("GuildPrivateThread")
      [] u = 13 -> Ok("GuildStageVoice")
      [] OTHER -> Err(EnumFromIntegerError_new(u))

\* u64::from(ChannelKind) as the position of the variant in the enum (`as u64`)
u64_from_ChannelKind_discriminant(v) ==
    CASE v = "GuildText" -> 0
      [] v = "Dm" -> 1
      [] v = "GuildVoice" -> 2
      [] v = "GroupDm" -> 3
      [] v = "GuildCategory" -> 4
      [] v = "GuildNews" -> 5
      [] v = "GuildStore" -> 6
      [] v = "GuildNewsThread" -> 7
      [] v = "GuildPublicThread" -> 8
      [] v = "GuildPrivateThread" -> 9
      [] v = "GuildStageVoice" -> 10

u64_from_ChannelKind(v) ==
    CASE v = "GuildText" -> 0
      [] v = "Dm" -> 1
      [] v = "GuildVoice" -> 2
      [] v = "GroupDm" -> 3
      [] v = "GuildCategory" -> 4
      [] v = "GuildNews" -> 5
      [] v = "GuildStore" -> 6
      [] v = "GuildNewsThread" -> 10
      [] v = "GuildPublicThread" -> 11
      [] v = "GuildPrivateThread" -> 12
      [] v = "GuildStageVoice" -> 13

\* resources/channel/message.rs
MessageKind_try_from(u) ==
    CASE u = 0 -> Ok("Default")
      [] u = 1 -> Ok("RecipientAdd")
      [] u = 2 -> Ok("RecipientRemove")
      [] u = 3 -> Ok("Call")
      [] u = 4 -> Ok("ChannelNameChange")
      [] u = 5 -> Ok("ChannelIconChange")
      [] u = 6 -> Ok("ChannelPinnedMessage")
      [] u = 7 -> Ok("GuildMemberJoin")
      [] u = 8 -> Ok("UserPremiumGuildSubscription")
      [] u = 9 -> Ok("UserPremiumGuildSubscriptionTier1")
      [] u = 10 -> Ok("UserPremiumGuildSubscriptionTier2")
      [] u = 11 -> Ok("UserPremiumGuildSubscriptionTier3")
      [] u = 12 -> Ok("ChannelFollowAdd")
      [] u = 14 -> Ok("GuildDiscoveryDisqualified")
      [] u = 15 -> Ok("GuildDiscoveryRequalified")
      [] u = 16 -> Ok("GuildDiscoveryGracePeriodInitialWarning")
      [] u = 17 -> Ok("GuildDiscoveryGracePeriodFinalWarning")
      [] u = 18 -> Ok("ThreadCreated")
      [] u = 19 -> Ok("Reply")
      [] u = 20 -> Ok("ApplicationCommand")
      [] u = 21 -> Ok("ThreadStarterMessage")
      [] u = 22 -> Ok("GuildInviteReminder")
      [] OTHER -> Err(EnumFromIntegerError_new(u))

u64_from_MessageKind(v) ==
    CASE v = "Default" -> 0
      [] v = "RecipientAdd" -> 1
      [] v = "RecipientRemove" -> 2
      [] v = "Call" -> 3
      [] v = "ChannelNameChange" -> 4
      [] v = "ChannelIconChange" -> 5
      [] v = "ChannelPinnedMessage" -> 6
      [] v = "GuildMemberJoin" -> 7
      [] v = "UserPremiumGuildSubscription" -> 8
      [] v = "UserPremiumGuildSubscriptionTier1" -> 9
      [] v = "UserPremiumGuildSubscriptionTier2" -> 10
      [] v = "UserPremiumGuildSubscriptionTier3" -> 11
      [] v = "ChannelFollowAdd" -> 12
      [] v = "GuildDiscoveryDisqualified" -> 14
      [] v = "GuildDiscoveryRequalified" -> 15
      [] v = "GuildDiscoveryGracePeriodInitialWarning" -> 16
      [] v = "GuildDiscoveryGracePeriodFinalWarning" -> 17
      [] v = "ThreadCreated" -> 18
      [] v = "Reply" -> 19
      [] v = "ApplicationCommand" -> 20
      [] v = "ThreadStarterMessage" -> 21
      [] v = "GuildInviteReminder" -> 22

AuditLogEventVariants ==
    {"GuildUpdate", "ChannelCreate", "ChannelUpdate", "ChannelDelete", "ChannelOverwriteCreate", "ChannelOverwriteUpdate", "ChannelOverwriteDelete", "MemberKick", "MemberPrune", "MemberBanAdd", "MemberBanRemove", "MemberUpdate", "MemberRoleUpdate", "MemberMove", "MemberDisconnect", "BotAdd", "RoleCreate", "RoleUpdate", "RoleDelete", "InviteCreate", "InviteUpdate", "InviteDelete", "WebhookCreate", "WebhookUpdate", "WebhookDelete", "EmojiCreate", "EmojiUpdate", "EmojiDelete", "MessageDelete", "MessageBulkDelete", "MessagePin", "MessageUnpin", "IntegrationCreate", "IntegrationUpdate", "IntegrationDelete"}

ChannelKindVariants ==
    {"GuildText", "Dm", "GuildVoice", "GroupDm", "GuildCategory", "GuildNews", "GuildStore", "GuildNewsThread", "GuildPublicThread", "GuildPrivateThread", "GuildStageVoice"}

MessageKindVariants ==
    {"Default", "RecipientAdd", "RecipientRemove", "Call", "ChannelNameChange", "ChannelIconChange", "ChannelPinnedMessage", "GuildMemberJoin", "UserPremiumGuildSubscription", "UserPremiumGuildSubscriptionTier1", "UserPremiumGuildSubscriptionTier2", "UserPremiumGuildSubscriptionTier3", "ChannelFollowAdd", "GuildDiscoveryDisqualified", "GuildDiscoveryRequalified", "GuildDiscoveryGracePeriodInitialWarning", "GuildDiscoveryGracePeriodFinalWarning", "ThreadCreated", "Reply", "ApplicationCommand", "ThreadStarterMessage", "GuildInviteReminder"}

IntegerEnumTypes == {"AuditLogEvent", "ChannelKind", "MessageKind"}

\* the bitflags structures that are decoded as IntegerEnum<T>
IntegerFlagTypes == {"UserFlags"}

\* the named variants of the enum T
Variants(T) ==
    CASE T = "AuditLogEvent" -> AuditLogEventVariants
      [] T = "ChannelKind" -> ChannelKindVariants
      [] T = "MessageKind" -> MessageKindVariants

\* T::try_from(raw), resolved by the type parameter
T_try_from(T, raw) ==
    CASE T = "AuditLogEvent" -> AuditLogEvent_try_from(raw)
      [] T = "ChannelKind" -> ChannelKind_try_from(raw)
      [] T = "MessageKind" -> MessageKind_try_from(raw)
      [] T = "UserFlags" -> UserFlags_try_from(raw)

\* t.into(): u64::from(t), resolved by the type parameter
T_into_u64(T, t) ==
    CASE T = "AuditLogEvent" -> u64_from_AuditLogEvent(t)
      [] T = "ChannelKind" -> u64_from_ChannelKind(t)
      [] T = "MessageKind" -> u64_from_MessageKind(t)
      [] T = "UserFlags" -> u64_from_UserFlags(t)

(***************************************************************************)
(* enums.rs: IntegerEnum<T>                                                *)
(***************************************************************************)
\* IntegerEnum::custom
IntegerEnum_custom(value) == IntegerEnum(Raw(value))

\* From<T> for IntegerEnum<T>
IntegerEnum_from(t) == IntegerEnum(Parsed(t))

\* IntegerEnum::try_unwrap
IntegerEnum_try_unwrap(self) ==
    IF self.inner.state = "Raw"
    THEN Err(EnumFromIntegerError_new(self.inner.r))
    ELSE Ok(self.inner.t)

\* IntegerEnum::serialize with the raw state written as null
IntegerEnum_serialize_rawLost(T, self) ==
    IF self.inner.state = "Parsed"
    THEN u64_serialize(T_into_u64(T, self.inner.t))
    ELSE JNull

\* Serialize for IntegerEnum<T>
IntegerEnum_serialize(T, self) ==
    LET int == IF self.inner.state = "Parsed"
               THEN T_into_u64(T, self.inner.t)
               ELSE self.inner.r
    IN  u64_serialize(int)

\* IntegerEnum::deserialize with the error of try_from propagated by `?`
IntegerEnum_deserialize_strict(T, d) ==
    LET raw == u64_deserialize(d) IN
    IF raw.tag = "Err" THEN raw
    ELSE LET r == T_try_from(T, raw.v)
         IN  IF r.tag = "Ok" THEN Ok(IntegerEnum(Parsed(r.v)))
             ELSE Err(DecodeError)

\* Deserialize for IntegerEnum<T>
IntegerEnum_deserialize(T, d) ==
    LET raw == u64_deserialize(d) IN
    IF raw.tag = "Err" THEN raw
    ELSE LET r == T_try_from(T, raw.v)
             inner == IF r.tag = "Ok" THEN Parsed(r.v) ELSE Raw(raw.v)
         IN  Ok(IntegerEnum(inner))

(***************************************************************************)
(* guild.rs: GuildFeature, an enum with the catch-all folded in, decoded   *)
(* and encoded through String (serde from = "String", into = "String")     *)
(***************************************************************************)
Named(name) == [tag |-> "GuildFeature", name |-> name]
Other(s) == [tag |-> "GuildFeature", name |-> "Other", raw |-> s]

GuildFeature_from_String(s) ==
    CASE s = "ANIMATED_ICON" -> Named("AnimatedIcon")
      [] s = "BANNER" -> Named("Banner")
      [] s = "COMMERCE" -> Named("Commerce")
      [] s = "COMMUNITY" -> Named("Community")
      [] s = "DISCOVERABLE" -> Named("Discoverable")
      [] s = "FEATURABLE" -> Named("Featurable")
      [] s = "INVITE_SPLASH" -> Named("InviteSplash")
      [] s = "MEMBER_VERIFICATION_GATE_ENABLED" -> Named("MemberVerificationGateEnabled")
      [] s = "NEWS" -> Named("News")
      [] s = "PARTNERED" -> Named("Partnered")
      [] s = "PREVIEW_ENABLED" -> Named("PreviewEnabled")
      [] s = "VANITY_URL" -> Named("VanityUrl")
      [] s = "VERIFIED" -> Named("Verified")
      [] s = "VIP_REGIONS" -> Named("VipRegions")
      [] s = "WELCOME_SCREEN_ENABLED" -> Named("WelcomeScreenEnabled")
      [] OTHER -> Other(s)

String_from_GuildFeature(f) ==
    CASE f = Named("AnimatedIcon") -> "ANIMATED_ICON"
      [] f = Named("Banner") -> "BANNER"
      [] f = Named("Commerce") -> "COMMERCE"
      [] f = Named("Community") -> "COMMUNITY"
      [] f = Named("Discoverable") -> "DISCOVERABLE"
      [] f = Named("Featurable") -> "FEATURABLE"
      [] f = Named("InviteSplash") -> "INVITE_SPLASH"
      [] f = Named("MemberVerificationGateEnabled") -> "MEMBER_VERIFICATION_GATE_ENABLED"
      [] f = Named("News") -> "NEWS"
      [] f = Named("Partnered") -> "PARTNERED"
      [] f = Named("PreviewEnabled") -> "PREVIEW_ENABLED"
      [] f = Named("VanityUrl") -> "VANITY_URL"
      [] f = Named("Verified") -> "VERIFIED"
      [] f = Named("VipRegions") -> "VIP_REGIONS"
      [] f = Named("WelcomeScreenEnabled") -> "WELCOME_SCREEN_ENABLED"
      [] OTHER -> f.raw

\* Deserialize for GuildFeature
GuildFeature_deserialize(d) ==
    LET s == String_deserialize(d) IN
    IF s.tag = "Err" THEN s ELSE Ok(GuildFeature_from_String(s.v))

\* GuildFeature::serialize as the derived encoding, which writes the name of
\* the catch-all variant instead of the text it holds
GuildFeature_serialize_derived(f) ==
    String_serialize(IF f.name = "Other" THEN "Other"
                     ELSE String_from_GuildFeature(f))

\* Serialize for GuildFeature
GuildFeature_serialize(f) == String_serialize(String_from_GuildFeature(f))

(***************************************************************************)
(* guild.rs, channel/message.rs: integer enums with the catch-all folded   *)
(* in, decoded and encoded through u64 (serde from = "u64", into = "u64")  *)
(***************************************************************************)
CatchAll(T, name) == [tag |-> "CatchAll", enum |-> T, name |-> name]
CatchAllOther(T, u) ==
    [tag |-> "CatchAll", enum |-> T, name |-> "Other", other |-> u]

\* From<u64> for VerificationLevel
VerificationLevel_from_u64(u) ==
    CASE u = 0 -> CatchAll("VerificationLevel", "None")
      [] u = 1 -> CatchAll("VerificationLevel", "Low")
      [] u = 2 -> CatchAll("VerificationLevel", "Medium")
      [] u = 3 -> CatchAll("VerificationLevel", "High")
      [] u = 4 -> CatchAll("VerificationLevel", "VeryHigh")
      [] OTHER -> CatchAllOther("VerificationLevel", u)

\* From<VerificationLevel> for u64
u64_from_VerificationLevel(v) ==
    CASE v.name = "None" -> 0
      [] v.name = "Low" -> 1
      [] v.name = "Medium" -> 2
      [] v.name = "High" -> 3
      [] v.name = "VeryHigh" -> 4
      [] v.name = "Other" -> v.other

\* From<u64> for MfaLevel
MfaLevel_from_u64(u) ==
    CASE u = 0 -> CatchAll("MfaLevel", "None")
      [] u = 1 -> CatchAll("MfaLevel", "Elevated")
      [] OTHER -> CatchAllOther("MfaLevel", u)

\* From<MfaLevel> for u64
u64_from_MfaLevel(v) ==
    CASE v.name = "None" -> 0
      [] v.name = "Elevated" -> 1
      [] v.name = "Other" -> v.other

\* From<u64> for PremiumTier
PremiumTier_from_u64(u) ==
    CASE u = 0 -> CatchAll("PremiumTier", "None")
      [] u = 1 -> CatchAll("PremiumTier", "Tier1")
      [] u = 2 -> CatchAll("PremiumTier", "Tier2")
      [] u = 3 -> CatchAll("PremiumTier", "Tier3")
      [] OTHER -> CatchAllOther("PremiumTier", u)

\* From<PremiumTier> for u64
u64_from_PremiumTier(v) ==
    CASE v.name = "None" -> 0
      [] v.name = "Tier1" -> 1
      [] v.name = "Tier2" -> 2
      [] v.name = "Tier3" -> 3
      [] v.name = "Other" -> v.other

\* From<u64> for MessageKind of channel/message.rs
ChannelMessageKind_from_u64(u) ==
    CASE u = 0 -> CatchAll("channel::MessageKind", "Default")
      [] u = 1 -> CatchAll("channel::MessageKind", "RecipientAdd")
      [] u = 2 -> CatchAll("channel::MessageKind", "RecipientRemove")
      [] u = 3 -> CatchAll("channel::MessageKind", "Call")
      [] u = 4 -> CatchAll("channel::MessageKind", "ChannelNameChange")
      [] u = 5 -> CatchAll("channel::MessageKind", "ChannelIconChange")
      [] u = 6 -> CatchAll("channel::MessageKind", "ChannelPinnedMessage")
      [] u = 7 -> CatchAll("channel::MessageKind", "GuildMemberJoin")
      [] u = 8 -> CatchAll("channel::MessageKind", "UserPremiumGuildSubscription")
      [] u = 9 -> CatchAll("channel::MessageKind", "UserPremiumGuildSubscriptionTier1")
      [] u = 10 -> CatchAll("channel::MessageKind", "UserPremiumGuildSubscriptionTier2")
      [] u = 11 -> CatchAll("channel::MessageKind", "UserPremiumGuildSubscriptionTier3")
      [] u = 12 -> CatchAll("channel::MessageKind", "ChannelFollowAdd")
      [] u = 14 -> CatchAll("channel::MessageKind", "GuildDiscoveryDisqualified")
      [] u = 15 -> CatchAll("channel::MessageKind", "GuildDiscoveryRequalified")
      [] u = 16 -> CatchAll("channel::MessageKind", "GuildDiscoveryGracePeriodInitialWarning")
      [] u = 17 -> CatchAll("channel::MessageKind", "GuildDiscoveryGracePeriodFinalWarning")
      [] u = 18 -> CatchAll("channel::MessageKind", "ThreadCreated")
      [] u = 19 -> CatchAll("channel::MessageKind", "Reply")
      [] u = 20 -> CatchAll("channel::MessageKind", "ApplicationCommand")
      [] u = 21 -> CatchAll("channel::MessageKind", "ThreadStarterMessage")
      [] u = 22 -> CatchAll("channel::MessageKind", "GuildInviteReminder")
      [] OTHER -> CatchAllOther("channel::MessageKind", u)

\* From<MessageKind> for u64 of channel/message.rs
u64_from_ChannelMessageKind(v) ==
    CASE v.name = "Default" -> 0
      [] v.name = "RecipientAdd" -> 1
      [] v.name = "RecipientRemove" -> 2
      [] v.name = "Call" -> 3
      [] v.name = "ChannelNameChange" -> 4
      [] v.name = "ChannelIconChange" -> 5
      [] v.name = "ChannelPinnedMessage" -> 6
      [] v.name = "GuildMemberJoin" -> 7
      [] v.name = "UserPremiumGuildSubscription" -> 8
      [] v.name = "UserPremiumGuildSubscriptionTier1" -> 9
      [] v.name = "UserPremiumGuildSubscriptionTier2" -> 10
      [] v.name = "UserPremiumGuildSubscriptionTier3" -> 11
      [] v.name = "ChannelFollowAdd" -> 12
      [] v.name = "GuildDiscoveryDisqualified" -> 14
      [] v.name = "GuildDiscoveryRequalified" -> 15
      [] v.name = "GuildDiscoveryGracePeriodInitialWarning" -> 16
      [] v.name = "GuildDiscoveryGracePeriodFinalWarning" -> 17
      [] v.name = "ThreadCreated" -> 18
      [] v.name = "Reply" -> 19
      [] v.name = "ApplicationCommand" -> 20
      [] v.name = "ThreadStarterMessage" -> 21
      [] v.name = "GuildInviteReminder" -> 22
      [] v.name = "Other" -> v.other

CatchAllTypes ==
    {"VerificationLevel", "MfaLevel", "PremiumTier", "channel::MessageKind"}

\* T::from(u), resolved by the type
CatchAll_from_u64(T, u) ==
    CASE T = "VerificationLevel" -> VerificationLevel_from_u64(u)
      [] T = "MfaLevel" -> MfaLevel_from_u64(u)
      [] T = "PremiumTier" -> PremiumTier_from_u64(u)
      [] T = "channel::MessageKind" -> ChannelMessageKind_from_u64(u)

\* u64::from(v), resolved by the type
u64_from_CatchAll(v) ==
    CASE v.enum = "VerificationLevel" -> u64_from_VerificationLevel(v)
      [] v.enum = "MfaLevel" -> u64_from_MfaLevel(v)
      [] v.enum = "PremiumTier" -> u64_from_PremiumTier(v)
      [] v.enum = "channel::MessageKind" -> u64_from_ChannelMessageKind(v)

\* the derived Deserialize with serde(from = "u64")
CatchAll_deserialize(T, d) ==
    LET u == u64_deserialize(d) IN
    IF u.tag = "Err" THEN u ELSE Ok(CatchAll_from_u64(T, u.v))

\* the derived Serialize with serde(into = "u64")
CatchAll_serialize(v) == u64_serialize(u64_from_CatchAll(v))

(***************************************************************************)
(* chrono: a point in time is its whole milliseconds since the Unix epoch  *)
(* (an i64, rounded towards the past) and the nanoseconds below the        *)
(* millisecond.                                                            *)
(***************************************************************************)
DateTime(millis, nanos) ==
    [tag |-> "DateTime", millis |-> millis, nanos |-> nanos]

\* DateTime::timestamp_millis
timestamp_millis(dt) == dt.millis

\* the last millisecond chrono represents, +262143-12-31T23:59:59.999Z
ChronoMaxMillis == Lit(<<8,2,1,0,2,9,8,4,1,2,7,9,9,9,9,9>>)

\* the first millisecond chrono represents, -262144-01-01T00:00:00Z, negated
ChronoMinMillisAbs == Lit(<<8,3,3,4,6,3,2,9,3,7,6,0,0,0,0,0>>)

Panic(msg) == [tag |-> "Panic", msg |-> msg]

\* Utc.timestamp_millis: panics outside the range chrono represents
Utc_timestamp_millis(millis) ==
    IF \/ TopBit(millis) = 0 /\ Lt(ChronoMaxMillis, millis)
       \/ TopBit(millis) = 1 /\ Lt(ChronoMinMillisAbs, Neg(millis))
    THEN Panic("no such time")
    ELSE DateTime(millis, 0)

\* days from 1970-01-01 to the civil date y-m-d (proleptic Gregorian), y >= 1970
DaysFromCivil(y, m, d) ==
    LET yy == IF m <= 2 THEN y - 1 ELSE y
        era == yy \div 400
        yoe == yy - era * 400
        mp == IF m > 2 THEN m - 3 ELSE m + 9
        doy == (153 * mp + 2) \div 5 + d - 1
        doe == yoe * 365 + yoe \div 4 - yoe \div 100 + doy
    IN  era * 146097 + doe - 719468

\* Utc.ymd(y, m, d).and_hms_milli(h, mi, s, ms), for dates before 2038
Utc_ymd_and_hms_milli(y, m, d, h, mi, s, ms) ==
    LET secs == ((DaysFromCivil(y, m, d) * 24 + h) * 60 + mi) * 60 + s
        k == FromNat(secs)
        \* secs * 1000 = secs * (1024 - 16 - 8)
        thousand == CheckedSub(CheckedSub(Shl(k, 10), Shl(k, 4)).v, Shl(k, 3)).v
    IN  DateTime(WrappingAdd(thousand, FromNat(ms)), 0)

(***************************************************************************)
(* snowflake.rs                                                            *)
(***************************************************************************)
EPOCH == Lit(<<1,4,2,0,0,7,0,4,0,0,0,0,0>>)

TimestampShift == 22
WorkerMask == 4063232   \* 0x3E0000
WorkerShift == 17
ProcessMask == 126976   \* 0x1F000
ProcessShift == 12
IncrementMask == 4095   \* 0xFFF

Snowflake(raw) == [tag |-> "Snowflake", raw |-> raw]

None == [tag |-> "None"]

\* Snowflake::from_date_time without the subtraction of EPOCH
Snowflake_from_date_time_noEpoch(dt) ==
    LET unix_ms == TryIntoU64(timestamp_millis(dt)) IN
    IF unix_ms.tag = "Err" THEN None
    ELSE Snowflake(Shl(unix_ms.v, TimestampShift))

\* Snowflake::from_date_time with the offset shifted by one bit too few
Snowflake_from_date_time_shift21(dt) ==
    LET unix_ms == TryIntoU64(timestamp_millis(dt)) IN
    IF unix_ms.tag = "Err" THEN None
    ELSE LET discord_ms == CheckedSub(unix_ms.v, EPOCH) IN
         IF discord_ms.tag = "None" THEN None
         ELSE Snowflake(Shl(discord_ms.v, TimestampShift - 1))

\* Snowflake::from_date_time
Snowflake_from_date_time(dt) ==
    LET unix_ms == TryIntoU64(timestamp_millis(dt)) IN
    IF unix_ms.tag = "Err" THEN None
    ELSE LET discord_ms == CheckedSub(unix_ms.v, EPOCH) IN
         IF discord_ms.tag = "None" THEN None
         ELSE Snowflake(Shl(discord_ms.v, TimestampShift))

\* the conversion of the millisecond count of Snowflake::timestamp
MillisToDateTime(t) ==
    LET i == TryIntoI64(t) IN
    IF i.tag = "Err" THEN Panic("unwrap on Err") ELSE Utc_timestamp_millis(i.v)

\* the outcomes of Snowflake::timestamp for the sum it computed: an
\* overflowing `+` panics in a build with overflow checks and wraps in a
\* build without
TimestampOutcomes(sum) ==
    IF sum.carry = 1
    THEN {Panic("add with overflow"), MillisToDateTime(sum.sum)}
    ELSE {MillisToDateTime(sum.sum)}

\* Snowflake::timestamp without the addition of EPOCH
Snowflake_timestamp_noEpoch(self) ==
    TimestampOutcomes(AddWithCarry(Shr(self.raw, TimestampShift), FromNat(0), 0))

\* Snowflake::timestamp without the shift
Snowflake_timestamp_noShift(self) ==
    TimestampOutcomes(AddWithCarry(self.raw, EPOCH, 0))

\* Snowflake::timestamp
Snowflake_timestamp(self) ==
    TimestampOutcomes(AddWithCarry(Shr(self.raw, TimestampShift), EPOCH, 0))

\* Snowflake::worker_id with the field shifted by one bit too few
worker_id_wide_shift16(self) ==
    Shr(BitAnd(self.raw, FromNat(WorkerMask)), WorkerShift - 1)

\* the `id` of Snowflake::worker_id before the cast
worker_id_wide(self) == Shr(BitAnd(self.raw, FromNat(WorkerMask)), WorkerShift)

\* Snowflake::worker_id
Snowflake_worker_id(self) == AsU8(worker_id_wide(self))

\* the `id` of Snowflake::process_id before the cast
process_id_wide(self) == Shr(BitAnd(self.raw, FromNat(ProcessMask)), ProcessShift)

\* Snowflake::process_id
Snowflake_process_id(self) == AsU8(process_id_wide(self))

\* the `id` of Snowflake::increment before the cast
increment_wide(self) == BitAnd(self.raw, FromNat(IncrementMask))

\* Snowflake::increment
Snowflake_increment(self) == AsU16(increment_wide(self))


(***************************************************************************)
(* Text.  A str whose characters the program inspects is the sequence of   *)
(* its characters.                                                         *)
(***************************************************************************)
DecimalDigits == <<"0", "1", "2", "3", "4", "5", "6", "7", "8", "9">>

\* char::to_digit(10), -1 for a character that is no digit
to_digit(c) ==
    IF \E d \in 0..9 : DecimalDigits[d + 1] = c
    THEN CHOOSE d \in 0..9 : DecimalDigits[d + 1] = c
    ELSE -1

ParseIntError(kind) == [tag |-> "ParseIntError", kind |-> kind]

\* the low n bytes of x * k + cin, and the carry out of them
RECURSIVE MulLow(_, _, _, _)
MulLow(x, k, cin, n) ==
    IF n = 0 THEN [prod |-> <<>>, carry |-> cin]
    ELSE LET lo == MulLow(x, k, cin, n - 1)
             p == x[n] * k + lo.carry
         IN  [prod |-> Append(lo.prod, p % 256), carry |-> p \div 256]

\* one round of the loop of u64::from_str: result.checked_mul(10) and then
\* checked_add(digit), on the outcome acc of the rounds before it
ParseRound(acc, c) ==
    IF acc.tag = "Err" THEN acc
    ELSE IF to_digit(c) < 0 THEN Err(ParseIntError("InvalidDigit"))
    ELSE LET m == MulLow(acc.v, 10, to_digit(c), U64Bytes)
         IN  IF m.carry # 0 THEN Err(ParseIntError("PosOverflow"))
             ELSE Ok(m.prod)

\* the loop of u64::from_str over the characters after the sign; the outcome
\* of the leading characters is bound through a singleton set, so that it is
\* computed once before it is used
RECURSIVE ParseDigits(_)
ParseDigits(txt) ==
    IF txt = <<>> THEN Ok(FromNat(0))
    ELSE CHOOSE r \in { ParseRound(acc, txt[Len(txt)]) :
                        acc \in {ParseDigits(SubSeq(txt, 1, Len(txt) - 1))} } : TRUE

\* u64::from_str (str::parse::<u64>): an optional leading + and one or more
\* decimal digits; a - is not a digit of an unsigned type
u64_from_str(txt) ==
    IF txt = <<>> THEN Err(ParseIntError("Empty"))
    ELSE IF txt \in {<<"+">>, <<"-">>} THEN Err(ParseIntError("InvalidDigit"))
    ELSE IF txt[1] = "+" THEN ParseDigits(Tail(txt))
    ELSE ParseDigits(txt)

\* x divided by the small number k, with the remainder
DivRem(x, k) ==
    LET c8 == x[8]
        c7 == (c8 % k) * 256 + x[7]
        c6 == (c7 % k) * 256 + x[6]
        c5 == (c6 % k) * 256 + x[5]
        c4 == (c5 % k) * 256 + x[4]
        c3 == (c4 % k) * 256 + x[3]
        c2 == (c3 % k) * 256 + x[2]
        c1 == (c2 % k) * 256 + x[1]
    IN  [quot |-> <<c1 \div k, c2 \div k, c3 \div k, c4 \div k,
                    c5 \div k, c6 \div k, c7 \div k, c8 \div k>>,
         rem |-> c1 % k]

\* the decimal digits of x, none for zero
RECURSIVE SignificantDigits(_)
SignificantDigits(x) ==
    IF x = FromNat(0) THEN <<>>
    ELSE CHOOSE r \in { Append(SignificantDigits(d.quot), DecimalDigits[d.rem + 1]) :
                        d \in {DivRem(x, 10)} } : TRUE

\* u64::to_string (Display for u64)
u64_to_string(x) == IF x = FromNat(0) THEN <<"0">> ELSE SignificantDigits(x)

(***************************************************************************)
(* snowflake.rs: Id<For> and AnyId.  The marker _p of an Id<For> carries   *)
(* the type parameter and no data.                                         *)
(***************************************************************************)
Id(For, id) == [tag |-> "Id", p |-> For, id |-> id]

AnyId(id) == [tag |-> "AnyId", id |-> id]

IdTypes == {"Id<Role>", "Id<User>", "AnyId"}

\* the identifier of type T holding id: T is AnyId or Id<For>
Id_new(T, id) == IF T = "AnyId" THEN AnyId(id) ELSE Id(T, id)

\* From<u64> for Id<For>, From<u64> for AnyId
Id_from_u64(T, id) == Id_new(T, id)

\* From<Id<For>> for u64, From<AnyId> for u64
u64_from_Id(self) == self.id

\* From<Id<T>> for AnyId
AnyId_from_Id(self) == AnyId(self.id)

\* From<AnyId> for Id<T>
Id_from_AnyId(T, self) == Id(T, self.id)

\* Display for Id<For> with the field rendered as an i64
Id_to_string_signed(self) ==
    IF TopBit(self.id) = 1 THEN <<"-">> \o u64_to_string(Neg(self.id))
    ELSE u64_to_string(self.id)

\* Display for Id<For>, Display for AnyId
Id_to_string(self) == u64_to_string(self.id)

\* FromStr for Id<For>, FromStr for AnyId
Id_from_str(T, txt) ==
    LET id == u64_from_str(txt)
    IN  IF id.tag = "Err" THEN id ELSE Ok(Id_new(T, id.v))

\* the derived Ord of Id<For> and AnyId as a signed comparison of the field
Id_cmp_signed(self, other) ==
    IF self.id = other.id THEN "Equal"
    ELSE IF TopBit(self.id) # TopBit(other.id)
         THEN (IF TopBit(self.id) = 1 THEN "Less" ELSE "Greater")
         ELSE (IF Lt(self.id, other.id) THEN "Less" ELSE "Greater")

\* the derived Ord of Id<For> and AnyId: the fields in order, the marker
\* always Equal
Id_cmp(self, other) ==
    IF Lt(self.id, other.id) THEN "Less"
    ELSE IF Lt(other.id, self.id) THEN "Greater"
    ELSE "Equal"

\* the derived PartialEq of Id<For> and AnyId
Id_eq(self, other) == self.id = other.id

\* the derived Hash of Id<For> and AnyId: what is written to the Hasher
Id_hash(self) == <<self.id>>

\* Serialize for Id<For> with the field written as a number
Id_serialize_number(self) == JUInt(self.id)

\* Serialize for Id<For>, Serialize for AnyId
Id_serialize(self) == JText(u64_to_string(self.id))

\* Deserializer::deserialize_any(StringOrInteger) of serde_json: the visitor
\* method the payload is handed to.  A JSON string goes to visit_str, a
\* non-negative integer to visit_u64, a negative one to visit_i64, and every
\* other payload to a method the visitor does not implement.
StringOrInteger_visit(d) ==
    CASE d.kind = "string" ->
            LET value == u64_from_str(d.chars)
            IN  IF value.tag = "Err" THEN Err(DecodeError) ELSE value
      [] d.kind = "uint" -> Ok(d.n)
      [] d.kind = "negint" ->
            LET value == TryIntoU64(d.n)
            IN  IF value.tag = "Err" THEN Err(DecodeError) ELSE value
      [] OTHER -> Err(DecodeError)

\* Deserialize for Id<For>, Deserialize for AnyId
Id_deserialize(T, d) ==
    LET id == StringOrInteger_visit(d)
    IN  IF id.tag = "Err" THEN id ELSE Ok(Id_new(T, id.v))

(***************************************************************************)
(* resources/channel.rs, resources/application/commands.rs: identifiers    *)
(* tagged by an integer `type`, decoded through a helper structure         *)
(***************************************************************************)
\* the JSON object {"id": id, "type": kind}
JIdAndType(id, kind) ==
    [tag |-> "Json", kind |-> "object", id |-> id, type |-> kind]

\* the derived Deserialize of OverwriteIdHelper and of CmdPermIdHelper
IdHelper_deserialize(d) ==
    IF d.kind # "object" \/ ~({"id", "type"} \subseteq DOMAIN d)
    THEN Err(DecodeError)
    ELSE LET id == Id_deserialize("Id<()>", d.id)
             kind == u64_deserialize(d.type)
         IN  IF id.tag = "Err" THEN id
             ELSE IF kind.tag = "Err" THEN kind
             ELSE Ok([id |-> id.v, kind |-> kind.v])

TaggedId(T, variant, id) == [tag |-> T, variant |-> variant, id |-> id]

\* From<OverwriteIdHelper> for OverwriteId
OverwriteId_from_helper(oih) ==
    CASE oih.kind = 0 ->
            TaggedId("OverwriteId", "Role", Id_from_u64("Id<Role>", u64_from_Id(oih.id)))
      [] oih.kind = 1 ->
            TaggedId("OverwriteId", "Member", Id_from_u64("Id<User>", u64_from_Id(oih.id)))
      [] OTHER -> Panic("unsupported overwrite id")

\* From<CmdPermIdHelper> for CommandPermissionId
CommandPermissionId_from_helper(cpi) ==
    CASE cpi.kind = 1 ->
            TaggedId("CommandPermissionId", "Role", Id_from_u64("Id<Role>", u64_from_Id(cpi.id)))
      [] cpi.kind = 2 ->
            TaggedId("CommandPermissionId", "User", Id_from_u64("Id<User>", u64_from_Id(cpi.id)))
      [] OTHER -> Panic("unsupported command permission id")

TaggedIdTypes == {"OverwriteId", "CommandPermissionId"}

\* Deserialize for OverwriteId (serde from = "OverwriteIdHelper") and for
\* CommandPermissionId (serde from = "CmdPermIdHelper"): the helper is
\* decoded and converted; a panic of the conversion unwinds through the
\* decoder
TaggedId_deserialize(T, d) ==
    LET h == IdHelper_deserialize(d) IN
    IF h.tag = "Err" THEN h
    ELSE LET r == IF T = "OverwriteId" THEN OverwriteId_from_helper(h.v)
                  ELSE CommandPermissionId_from_helper(h.v)
         IN  IF r.tag = "Panic" THEN r ELSE Ok(r)

\* From<OverwriteId> for OverwriteIdHelper
OverwriteIdHelper_from(oid) ==
    CASE oid.variant = "Role" ->
            [id |-> Id_from_u64("Id<()>", u64_from_Id(oid.id)), kind |-> 0]
      [] oid.variant = "Member" ->
            [id |-> Id_from_u64("Id<()>", u64_from_Id(oid.id)), kind |-> 1]

\* From<CommandPermissionId> for CmdPermIdHelper with the kinds of a
\* permission overwrite
CmdPermIdHelper_from_overwriteKinds(cpi) ==
    CASE cpi.variant = "Role" ->
            [id |-> Id_from_u64("Id<()>", u64_from_Id(cpi.id)), kind |-> 0]
      [] cpi.variant = "User" ->
            [id |-> Id_from_u64("Id<()>", u64_from_Id(cpi.id)), kind |-> 1]

\* From<CommandPermissionId> for CmdPermIdHelper
CmdPermIdHelper_from(cpi) ==
    CASE cpi.variant = "Role" ->
            [id |-> Id_from_u64("Id<()>", u64_from_Id(cpi.id)), kind |-> 1]
      [] cpi.variant = "User" ->
            [id |-> Id_from_u64("Id<()>", u64_from_Id(cpi.id)), kind |-> 2]

\* the derived Serialize of OverwriteIdHelper and of CmdPermIdHelper
IdHelper_serialize(h) == JIdAndType(Id_serialize(h.id), u64_serialize(h.kind))

\* Serialize for OverwriteId (serde into = "OverwriteIdHelper") and for
\* CommandPermissionId (serde into = "CmdPermIdHelper")
TaggedId_serialize(T, self) ==
    IdHelper_serialize(IF T = "OverwriteId" THEN OverwriteIdHelper_from(self)
                       ELSE CmdPermIdHelper_from(self))

(***************************************************************************)
(* Mapping tables of the concrete string enums                             *)
(***************************************************************************)
ParseEnumError_new(raw) == [tag |-> "ParseEnumError", raw |-> raw]

ParseEnumError_into_inner(self) == self.raw

\* FromStr for MentionKind
MentionKind_from_str(txt) ==
    CASE txt = <<"r", "o", "l", "e", "s">> -> Ok("Roles")
      [] txt = <<"u", "s", "e", "r", "s">> -> Ok("Users")
      [] txt = <<"e", "v", "e", "r", "y", "o", "n", "e">> -> Ok("Everyone")
      [] OTHER -> Err(ParseEnumError_new(txt))

\* AsRef<str> for MentionKind
MentionKind_as_ref(self) ==
    CASE self = "Roles" -> <<"r", "o", "l", "e", "s">>
      [] self = "Users" -> <<"u", "s", "e", "r", "s">>
      [] self = "Everyone" -> <<"e", "v", "e", "r", "y", "o", "n", "e">>

\* FromStr for EntityKind
EntityKind_from_str(txt) ==
    CASE txt = <<"0">> -> Ok("Role")
      [] txt = <<"1">> -> Ok("Member")
      [] OTHER -> Err(ParseEnumError_new(txt))

\* AsRef<str> for EntityKind
EntityKind_as_ref(self) ==
    CASE self = "Role" -> <<"0">>
      [] self = "Member" -> <<"1">>

\* FromStr for Permissions with the bits outside the flags dropped
Permissions_from_str_truncate(txt) ==
    LET num == u64_from_str(txt) IN
    IF num.tag = "Err" THEN Err(ParseEnumError_new(txt))
    ELSE Ok(Flags_from_bits_truncate("Permissions", num.v).v)

\* FromStr for Permissions
Permissions_from_str(txt) ==
    LET num == u64_from_str(txt) IN
    IF num.tag = "Err" THEN Err(ParseEnumError_new(txt))
    ELSE LET parsed == Flags_from_bits("Permissions", num.v)
         IN  IF parsed.tag = "None" THEN Err(ParseEnumError_new(txt))
             ELSE Ok(parsed.v)

\* the string enums that have named variants and AsRef<str>
NamedStringEnumTypes == {"MentionKind", "EntityKind"}

StringEnumTypes == NamedStringEnumTypes \cup {"Permissions"}

\* the named variants of the string enum T
StringVariants(T) ==
    CASE T = "MentionKind" -> {"Roles", "Users", "Everyone"}
      [] T = "EntityKind" -> {"Role", "Member"}

\* T::from_str(raw), resolved by the type parameter
T_from_str(T, raw) ==
    CASE T = "MentionKind" -> MentionKind_from_str(raw)
      [] T = "EntityKind" -> EntityKind_from_str(raw)
      [] T = "Permissions" -> Permissions_from_str(raw)

\* t.as_ref(), resolved by the type parameter
T_as_ref(T, t) ==
    CASE T = "MentionKind" -> MentionKind_as_ref(t)
      [] T = "EntityKind" -> EntityKind_as_ref(t)

(***************************************************************************)
(* enums.rs: StringEnum<T>                                                 *)
(***************************************************************************)
StringEnum(inner) == [tag |-> "StringEnum", inner |-> inner]

\* StringEnum::custom
StringEnum_custom(s) == StringEnum(Raw(s))

\* From<T> for StringEnum<T> with the variant stored as raw
StringEnum_from_raw(t) == StringEnum(Raw(t))

\* From<T> for StringEnum<T>
StringEnum_from(t) == StringEnum(Parsed(t))

\* StringEnum::try_unwrap
StringEnum_try_unwrap(self) ==
    IF self.inner.state = "Raw"
    THEN Err(ParseEnumError_new(self.inner.r))
    ELSE Ok(self.inner.t)

\* Result::unwrap
Result_unwrap(r) == IF r.tag = "Err" THEN Panic("unwrap on Err") ELSE r.v

\* StringEnum::unwrap
StringEnum_unwrap(self) == Result_unwrap(StringEnum_try_unwrap(self))

\* IntegerEnum::unwrap
IntegerEnum_unwrap(self) == Result_unwrap(IntegerEnum_try_unwrap(self))

\* Serialize for StringEnum<T>
StringEnum_serialize(T, self) ==
    LET txt == IF self.inner.state = "Parsed"
               THEN T_as_ref(T, self.inner.t)
               ELSE self.inner.r
    IN  JText(txt)

\* StringEnum::deserialize with a payload that is no string kept as raw
StringEnum_deserialize_lenient(T, d) ==
    IF d.kind # "string" THEN Ok(StringEnum(Raw(<<>>)))
    ELSE LET r == T_from_str(T, d.chars)
         IN  Ok(StringEnum(IF r.tag = "Ok" THEN Parsed(r.v) ELSE Raw(d.chars)))

\* Deserialize for StringEnum<T>
StringEnum_deserialize(T, d) ==
    IF d.kind # "string" THEN Err(DecodeError)
    ELSE LET raw == d.chars
             r == T_from_str(T, raw)
             inner == IF r.tag = "Ok" THEN Parsed(r.v) ELSE Raw(raw)
         IN  Ok(StringEnum(inner))

(***************************************************************************)
(* permissions.rs: Role.  Of the fields of a role the model keeps          *)
(* `permissions`; the others are decoded by derived code of their own.     *)
(***************************************************************************)
\* the JSON object of a role with the given `permissions`
JRole(permissions) ==
    [tag |-> "Json", kind |-> "object", permissions |-> permissions]

Role(permissions) == [tag |-> "Role", permissions |-> permissions]

\* the derived Deserialize of Role
Role_deserialize(d) ==
    IF d.kind # "object" \/ "permissions" \notin DOMAIN d THEN Err(DecodeError)
    ELSE LET permissions == StringEnum_deserialize("Permissions", d.permissions)
         IN  IF permissions.tag = "Err" THEN permissions
             ELSE Ok(Role(permissions.v))

\* Role::try_permissions
Role_try_permissions(self) == StringEnum_try_unwrap(self.permissions)

\* Role::permissions
Role_permissions(self) == StringEnum_unwrap(self.permissions)

(***************************************************************************)
(* str.rs, discord.rs: the token and its Debug rendering.  A character     *)
(* outside ASCII is written by its code point, U+hhhh.                     *)
(***************************************************************************)
\* the number of bytes of the UTF-8 encoding of a character
len_utf8(c) ==
    CASE c = "U+00E9" -> 2
      [] c = "U+20AC" -> 3
      [] c = "U+1F600" -> 4
      [] OTHER -> 1

\* str::len: the length in bytes
RECURSIVE str_len(_)
str_len(txt) ==
    IF txt = <<>> THEN 0 ELSE len_utf8(Head(txt)) + str_len(Tail(txt))

\* str::repeat of a one-character str
str_repeat(c, n) == [i \in 1..n |-> c]

\* obscure writing one `*` per character
obscure_perChar(txt) == str_repeat("*", Len(txt))

\* obscure: what it writes to the formatter
obscure(txt) == str_repeat("*", str_len(txt))

InnerToken(kind, token) == [tag |-> "Token", kind |-> kind, token |-> token]

\* Token::bot
Token_bot(bot_token) == InnerToken("Bot", bot_token)

\* Token::bearer
Token_bearer(bearer_token) == InnerToken("Bearer", bearer_token)

\* the Debug of InnerToken: the variant as a tuple of its field, the field
\* written by obscure
InnerToken_fmt(self) ==
    (IF self.kind = "Bot" THEN <<"B", "o", "t">>
     ELSE <<"B", "e", "a", "r", "e", "r">>)
    \o <<"(">> \o obscure(self.token) \o <<")">>

\* the derived Debug of Token, with {:?}
Token_fmt(self) ==
    <<"T", "o", "k", "e", "n", "(">> \o InnerToken_fmt(self) \o <<")">>

(***************************************************************************)
(* discord.rs, discord/requests.rs: the path of the audit-log request.     *)
(* An Option is None or Some(v).                                           *)
(***************************************************************************)
Some(v) == [tag |-> "Some", v |-> v]

\* From<IntegerEnum<T>> for u64
u64_from_IntegerEnum(T, enm) ==
    IF enm.inner.state = "Raw" THEN enm.inner.r ELSE T_into_u64(T, enm.inner.t)

\* Option::into_iter chained and collected: the values of the options that
\* are Some, in the order given
RECURSIVE chain_collect(_)
chain_collect(options) ==
    IF options = <<>> THEN <<>>
    ELSE (IF Head(options).tag = "Some" THEN <<Head(options).v>> ELSE <<>>)
         \o chain_collect(Tail(options))

\* [String]::join
RECURSIVE join(_, _)
join(parts, sep) ==
    IF parts = <<>> THEN <<>>
    ELSE IF Len(parts) = 1 THEN parts[1]
    ELSE parts[1] \o sep \o join(Tail(parts), sep)

\* Option::map with format!("<key>={}", u) for an identifier u
format_id(key, option) ==
    IF option.tag = "Some"
    THEN Some(key \o <<"=">> \o Id_to_string(option.v)) ELSE None

\* Option::map with format!("<key>={}", u) for a u64 u
format_u64(key, option) ==
    IF option.tag = "Some"
    THEN Some(key \o <<"=">> \o u64_to_string(option.v)) ELSE None

\* Option::map with format!("<key>={}", u64::from(u)) for an audit-log event u
format_event(key, option) ==
    IF option.tag = "Some"
    THEN Some(key \o <<"=">>
              \o u64_to_string(FromNat(u64_from_AuditLogEvent(option.v))))
    ELSE None

\* Option::map with format!("<key>={}", u64::from(u)) for a wrapped
\* audit-log event u
format_kind(key, option) ==
    IF option.tag = "Some"
    THEN Some(key \o <<"=">>
              \o u64_to_string(FromNat(u64_from_IntegerEnum("AuditLogEvent", option.v))))
    ELSE None

\* Discord::get_guild_audit_log with the question mark pushed before the
\* query is looked at
Discord_get_guild_audit_log_alwaysMark(guild_id, user_id, action_type, before, limit) ==
    LET path == <<"g", "u", "i", "l", "d", "s", "/">> \o Id_to_string(guild_id) \o <<"/", "a", "u", "d", "i", "t", "-", "l", "o", "g", "s">>
        query == join(chain_collect(<<
                     format_id(<<"u", "s", "e", "r", "_", "i", "d">>, user_id),
                     format_event(<<"a", "c", "t", "i", "o", "n", "_", "t", "y", "p", "e">>, action_type),
                     format_id(<<"b", "e", "f", "o", "r", "e">>, before),
                     format_u64(<<"l", "i", "m", "i", "t">>, limit)>>),
                      <<"&">>)
    IN  path \o <<"?">> \o query

\* Discord::get_guild_audit_log: the path handed to Discord::get
Discord_get_guild_audit_log(guild_id, user_id, action_type, before, limit) ==
    LET path == <<"g", "u", "i", "l", "d", "s", "/">> \o Id_to_string(guild_id) \o <<"/", "a", "u", "d", "i", "t", "-", "l", "o", "g", "s">>
        query == join(chain_collect(<<
                     format_id(<<"u", "s", "e", "r", "_", "i", "d">>, user_id),
                     format_event(<<"a", "c", "t", "i", "o", "n", "_", "t", "y", "p", "e">>, action_type),
                     format_id(<<"b", "e", "f", "o", "r", "e">>, before),
                     format_u64(<<"l", "i", "m", "i", "t">>, limit)>>),
                      <<"&">>)
    IN  IF query # <<>> THEN path \o <<"?">> \o query ELSE path

GetGuildAuditLog(guild_id, user_id, action_kind, before, limit) ==
    [tag |-> "GetGuildAuditLog", guild_id |-> guild_id, user_id |-> user_id,
     action_kind |-> action_kind, before |-> before, limit |-> limit]

\* GetGuildAuditLog::send: the path handed to Discord::get
GetGuildAuditLog_send(self) ==
    LET path == <<"g", "u", "i", "l", "d", "s", "/">> \o Id_to_string(self.guild_id) \o <<"/", "a", "u", "d", "i", "t", "-", "l", "o", "g", "s">>
        query == join(chain_collect(<<
                     format_id(<<"u", "s", "e", "r", "_", "i", "d">>, self.user_id),
                     format_kind(<<"a", "c", "t", "i", "o", "n", "_", "t", "y", "p", "e">>, self.action_kind),
                     format_id(<<"b", "e", "f", "o", "r", "e">>, self.before),
                     format_u64(<<"l", "i", "m", "i", "t">>, self.limit)>>),
                      <<"&">>)
    IN  IF query # <<>> THEN path \o <<"?">> \o query ELSE path

(***************************************************************************)
(* guild.rs: Guild, AvailableGuild and UnavailableGuild.  A guild payload  *)
(* is its `id`, its `unavailable` and the names of its other fields; a     *)
(* field that is not in the payload is Absent, and the values of the       *)
(* other fields are of the type their field asks for.                      *)
(***************************************************************************)
Absent == [tag |-> "Absent"]

JBool(b) == [tag |-> "Json", kind |-> "bool", b |-> b]

JGuild(id, unavailable, others) ==
    [tag |-> "Json", kind |-> "object", id |-> id,
     unavailable |-> unavailable, others |-> others]

\* Option::<bool>::deserialize
Option_bool_deserialize(d) ==
    IF d.kind = "null" THEN Ok(None)
    ELSE IF d.kind = "bool" THEN Ok(Some(d.b))
    ELSE Err(DecodeError)

\* Option::unwrap_or_default for a bool
unwrap_or_default(option) == IF option.tag = "Some" THEN option.v ELSE FALSE

\* unavailable::deserialize
unavailable_deserialize(d) ==
    LET o == Option_bool_deserialize(d) IN
    IF o.tag = "Err" THEN o
    ELSE IF unwrap_or_default(o.v) THEN Ok("()") ELSE Err(DecodeError)

\* unavailable::serialize
unavailable_serialize == JBool(TRUE)

\* available::deserialize accepting whatever boolean it is given
available_deserialize_anyBool(d) ==
    LET o == Option_bool_deserialize(d) IN
    IF o.tag = "Err" THEN o ELSE Ok("()")

\* available::deserialize
available_deserialize(d) ==
    LET o == Option_bool_deserialize(d) IN
    IF o.tag = "Err" THEN o
    ELSE IF unwrap_or_default(o.v) THEN Err(DecodeError) ELSE Ok("()")

\* available::serialize
available_serialize == JBool(FALSE)

\* the fields of AvailableGuild
AvailableGuildFields ==
    {"id", "name", "icon", "icon_hash", "splash", "discovery_splash",
     "owner", "owner_id", "permissions", "region", "afk_channel_id",
     "afk_timeout", "widget_enabled", "widget_channel_id",
     "verification_level", "default_message_notifications",
     "explicit_content_filter", "roles", "emojis", "features", "mfa_level",
     "application_id", "system_channel_id", "system_channel_flags",
     "rules_channel_id", "joined_at", "large", "unavailable", "member_count",
     "voice_states", "members", "channels", "threads", "presences",
     "max_presences", "max_members", "vanity_url_code", "description",
     "banner", "premium_tier", "premium_subscription_count",
     "preferred_locale", "public_updates_channel_id",
     "max_video_channel_users", "approximate_member_count", "welcome_screen",
     "nsfw"}

\* the fields of AvailableGuild that are no Option and have no default
AvailableGuildRequired ==
    {"id", "name", "owner_id", "region", "afk_timeout", "verification_level",
     "default_message_notifications", "explicit_content_filter", "roles",
     "emojis", "features", "mfa_level", "system_channel_flags",
     "premium_tier", "preferred_locale"}

UnavailableGuild(id) == [tag |-> "UnavailableGuild", id |-> id]

AvailableGuild(id) == [tag |-> "AvailableGuild", id |-> id]

Guild(variant, inner) == [tag |-> "Guild", variant |-> variant, inner |-> inner]

\* the derived Deserialize of UnavailableGuild (serde deny_unknown_fields)
UnavailableGuild_deserialize(d) ==
    IF d.kind # "object" THEN Err(DecodeError)
    ELSE IF d.others # {} THEN Err(DecodeError)
    ELSE IF d.id = Absent \/ d.unavailable = Absent THEN Err(DecodeError)
    ELSE LET id == Id_deserialize("Id<Guild>", d.id)
             unavailable == unavailable_deserialize(d.unavailable)
         IN  IF id.tag = "Err" THEN id
             ELSE IF unavailable.tag = "Err" THEN unavailable
             ELSE Ok(UnavailableGuild(id.v))

\* the derived Deserialize of AvailableGuild: a field it does not know is
\* skipped, `unavailable` has a default
AvailableGuild_deserialize(d) ==
    IF d.kind # "object" THEN Err(DecodeError)
    ELSE IF d.id = Absent THEN Err(DecodeError)
    ELSE IF ~((AvailableGuildRequired \ {"id"}) \subseteq d.others)
         THEN Err(DecodeError)
    ELSE LET id == Id_deserialize("Id<Guild>", d.id)
             unavailable == IF d.unavailable = Absent THEN Ok("()")
                            ELSE available_deserialize(d.unavailable)
         IN  IF id.tag = "Err" THEN id
             ELSE IF unavailable.tag = "Err" THEN unavailable
             ELSE Ok(AvailableGuild(id.v))

\* the derived Deserialize of Guild (serde untagged): the first variant
\* that decodes
Guild_deserialize(d) ==
    LET a == AvailableGuild_deserialize(d)
        u == UnavailableGuild_deserialize(d)
    IN  IF a.tag = "Ok" THEN Ok(Guild("Available", a.v))
        ELSE IF u.tag = "Ok" THEN Ok(Guild("Unavailable", u.v))
        ELSE Err(DecodeError)

\* the derived Serialize of UnavailableGuild
UnavailableGuild_serialize(self) ==
    JGuild(Id_serialize(self.id), unavailable_serialize, {})

\* the derived Serialize of AvailableGuild: every field is written
AvailableGuild_serialize(self) ==
    JGuild(Id_serialize(self.id), available_serialize,
           AvailableGuildFields \ {"id", "unavailable"})

\* the derived Serialize of Guild (serde untagged)
Guild_serialize(self) ==
    IF self.variant = "Available" THEN AvailableGuild_serialize(self.inner)
    ELSE UnavailableGuild_serialize(self.inner)

\* UnavailableGuild::unavailable
UnavailableGuild_unavailable(self) == TRUE

\* AvailableGuild::unavailable
AvailableGuild_unavailable(self) == FALSE

\* Guild::unavailable
Guild_unavailable(self) ==
    IF self.variant = "Unavailable" THEN UnavailableGuild_unavailable(self.inner)
    ELSE AvailableGuild_unavailable(self.inner)

GuildTypes == {"Guild", "AvailableGuild", "UnavailableGuild"}

\* Deserialize, resolved by the type
GuildT_deserialize(T, d) ==
    CASE T = "Guild" -> Guild_deserialize(d)
      [] T = "AvailableGuild" -> AvailableGuild_deserialize(d)
      [] T = "UnavailableGuild" -> UnavailableGuild_deserialize(d)

\* Serialize, resolved by the type of the value
GuildT_serialize(self) ==
    CASE self.tag = "Guild" -> Guild_serialize(self)
      [] self.tag = "AvailableGuild" -> AvailableGuild_serialize(self)
      [] self.tag = "UnavailableGuild" -> UnavailableGuild_serialize(self)

\* unavailable(), resolved by the type of the value
GuildT_unavailable(self) ==
    CASE self.tag = "Guild" -> Guild_unavailable(self)
      [] self.tag = "AvailableGuild" -> AvailableGuild_unavailable(self)
      [] self.tag = "UnavailableGuild" -> UnavailableGuild_unavailable(self)

(***************************************************************************)
(* audit_log.rs: the changes of an audit-log entry.  A change payload is   *)
(* the object {"key", "old_value", "new_value"}; a field that is not in    *)
(* the payload is Absent.                                                  *)
(***************************************************************************)
JArray(items) == [tag |-> "Json", kind |-> "array", items |-> items]

JChange(key, old_value, new_value) ==
    [tag |-> "Json", kind |-> "object", key |-> key,
     old_value |-> old_value, new_value |-> new_value]

\* the JSON object {"id": id, "name": name}
JAuditLogRole(id, name) ==
    [tag |-> "Json", kind |-> "object", id |-> id, name |-> name]

\* the JSON object {"id": id, "type": kind, "allow": allow, "deny": deny}
JOverwrite(id, kind, allow, deny) ==
    [tag |-> "Json", kind |-> "object", id |-> id, type |-> kind,
     allow |-> allow, deny |-> deny]

\* an entry payload with no target_id, user_id, options and reason
JAuditLogEntry(id, action_type, changes) ==
    [tag |-> "Json", kind |-> "object", id |-> id,
     action_type |-> action_type, changes |-> changes]

\* an audit-log payload whose webhooks, users and integrations are empty
\* arrays
JAuditLog(audit_log_entries) ==
    [tag |-> "Json", kind |-> "object",
     audit_log_entries |-> audit_log_entries]

\* the field of a JSON object
JField(d, name) == IF name \in DOMAIN d THEN d[name] ELSE Absent

\* Option::<serde_json::Value>::deserialize of a field: a field that is
\* missing or null is None
Option_Value_deserialize(d) ==
    IF d.tag = "Absent" THEN None
    ELSE IF d.kind = "null" THEN None
    ELSE Some(d)

\* the elements of a Vec, or the first failure among them
RECURSIVE try_collect(_)
try_collect(results) ==
    IF results = <<>> THEN Ok(<<>>)
    ELSE IF Head(results).tag # "Ok" THEN Head(results)
    ELSE LET rest == try_collect(Tail(results))
         IN  IF rest.tag # "Ok" THEN rest
             ELSE Ok(<<Head(results).v>> \o rest.v)

\* serde_json::from_value::<String>
String_from_value(n) ==
    IF n.tag = "Json" /\ n.kind = "string" THEN Ok(n.chars) ELSE Err(DecodeError)

\* serde_json::from_value::<u64>
u64_from_value(n) ==
    IF n.tag = "Json" THEN u64_deserialize(n) ELSE Err(DecodeError)

\* serde_json::from_value::<u32>
u32_from_value(n) ==
    IF n.tag = "Json" /\ n.kind = "uint" /\ Shr(n.n, 32) = FromNat(0)
    THEN Ok(n.n) ELSE Err(DecodeError)

\* serde_json::from_value::<bool>
bool_from_value(n) ==
    IF n.tag = "Json" /\ n.kind = "bool" THEN Ok(n.b) ELSE Err(DecodeError)

\* TryFrom<u64> for the enums a change holds
Level_try_from(T, u) ==
    CASE T = "VerificationLevel" ->
            (CASE u = FromNat(0) -> Ok("None")
               [] u = FromNat(1) -> Ok("Low")
               [] u = FromNat(2) -> Ok("Medium")
               [] u = FromNat(3) -> Ok("High")
               [] u = FromNat(4) -> Ok("VeryHigh")
               [] OTHER -> Err(EnumFromIntegerError_new(u)))
      [] T = "DefaultMessageNotificationLevel" ->
            (CASE u = FromNat(0) -> Ok("AllMessages")
               [] u = FromNat(1) -> Ok("OnlyMentions")
               [] OTHER -> Err(EnumFromIntegerError_new(u)))
      [] T = "ExplicitContentFilterLevel" ->
            (CASE u = FromNat(0) -> Ok("Disabled")
               [] u = FromNat(1) -> Ok("MembersWithoutRoles")
               [] u = FromNat(2) -> Ok("AllMembers")
               [] OTHER -> Err(EnumFromIntegerError_new(u)))
      [] T = "MfaLevel" ->
            (CASE u = FromNat(0) -> Ok("None")
               [] u = FromNat(1) -> Ok("Elevated")
               [] OTHER -> Err(EnumFromIntegerError_new(u)))
      [] T = "IntegrationExpireBehavior" ->
            (CASE u = FromNat(0) -> Ok("RemoveRole")
               [] u = FromNat(1) -> Ok("Kick")
               [] OTHER -> Err(EnumFromIntegerError_new(u)))
      [] T = "ChannelKind" ->
            LET codes == {k \in 0..MaxCode : FromNat(k) = u}
            IN  IF codes = {} THEN Err(EnumFromIntegerError_new(u))
                ELSE ChannelKind_try_from(CHOOSE k \in codes : TRUE)

\* IntegerEnum<T> of a u64 and of what T::try_from made of it
IntegerEnum_of(raw, r) ==
    IntegerEnum(IF r.tag = "Ok" THEN Parsed(r.v) ELSE Raw(raw))

\* serde_json::from_value::<IntegerEnum<T>>
IntegerEnum_from_value(T, n) ==
    LET raw == u64_from_value(n) IN
    IF raw.tag = "Err" THEN raw
    ELSE Ok(IntegerEnum_of(raw.v, Level_try_from(T, raw.v)))

AuditLogRole(id, name) == [tag |-> "AuditLogRole", id |-> id, name |-> name]

\* the fields of a structure, or the first failure among them
AuditLogRole_of(id, name) ==
    IF id.tag # "Ok" THEN id
    ELSE IF name.tag # "Ok" THEN name
    ELSE Ok(AuditLogRole(id.v, name.v))

\* a field that must be in the payload
required(field, r) == IF field.tag = "Absent" THEN Err(DecodeError) ELSE r

\* the derived Deserialize of AuditLogRole
AuditLogRole_deserialize(d) ==
    IF d.tag # "Json" \/ d.kind # "object" THEN Err(DecodeError)
    ELSE AuditLogRole_of(
            required(JField(d, "id"), Id_deserialize("Id<Role>", JField(d, "id"))),
            required(JField(d, "name"), String_from_value(JField(d, "name"))))

Overwrite(id, allow, deny) ==
    [tag |-> "Overwrite", id |-> id, allow |-> allow, deny |-> deny]

\* the fields of a structure, or the first failure among them
Overwrite_of(allow, deny, id) ==
    IF allow.tag # "Ok" THEN allow
    ELSE IF deny.tag # "Ok" THEN deny
    ELSE IF id.tag # "Ok" THEN id
    ELSE Ok(Overwrite(id.v, allow.v, deny.v))

\* the OverwriteId of a decoded helper (serde from = "OverwriteIdHelper");
\* a panic of the conversion unwinds through the decoder
OverwriteId_ok(r) == IF r.tag = "Panic" THEN r ELSE Ok(r)

OverwriteId_of(h) ==
    IF h.tag = "Err" THEN h ELSE OverwriteId_ok(OverwriteId_from_helper(h.v))

\* the derived Deserialize of Overwrite, whose id is flattened into the
\* object
Overwrite_deserialize(d) ==
    IF d.tag # "Json" \/ d.kind # "object" THEN Err(DecodeError)
    ELSE Overwrite_of(String_from_value(JField(d, "allow")),
                      String_from_value(JField(d, "deny")),
                      OverwriteId_of(IdHelper_deserialize(d)))

\* serde_json::from_value::<Vec<Overwrite>>
Vec_Overwrite_from_value(n) ==
    IF n.tag # "Json" \/ n.kind # "array" THEN Err(DecodeError)
    ELSE try_collect([i \in 1..Len(n.items) |-> Overwrite_deserialize(n.items[i])])

\* the first variant of AuditLogKindValue that decoded
AuditLogKindValue_of(kind, text) ==
    IF kind.tag = "Ok"
    THEN Ok([tag |-> "AuditLogKindValue", variant |-> "ChannelKind",
             kind |-> kind.v])
    ELSE IF text.tag = "Ok"
    THEN Ok([tag |-> "AuditLogKindValue", variant |-> "String",
             text |-> text.v])
    ELSE Err(DecodeError)

\* the derived Deserialize of the untagged AuditLogKindValue: the first
\* variant that decodes
AuditLogKindValue_deserialize(d) ==
    AuditLogKindValue_of(IntegerEnum_from_value("ChannelKind", d),
                         String_from_value(d))

\* serde_json::from_value::<T> for the types a change holds
from_value(T, n) ==
    CASE T = "String" -> String_from_value(n)
      [] T = "u64" -> u64_from_value(n)
      [] T = "u32" -> u32_from_value(n)
      [] T = "bool" -> bool_from_value(n)
      [] T = "UserId" -> Id_deserialize("Id<User>", n)
      [] T = "ChannelId" -> Id_deserialize("Id<Channel>", n)
      [] T = "ApplicationId" -> Id_deserialize("Id<Application>", n)
      [] T = "AnyId" -> Id_deserialize("AnyId", n)
      [] T = "IntegerEnum<MfaLevel>" -> IntegerEnum_from_value("MfaLevel", n)
      [] T = "IntegerEnum<VerificationLevel>" ->
            IntegerEnum_from_value("VerificationLevel", n)
      [] T = "IntegerEnum<ExplicitContentFilterLevel>" ->
            IntegerEnum_from_value("ExplicitContentFilterLevel", n)
      [] T = "IntegerEnum<DefaultMessageNotificationLevel>" ->
            IntegerEnum_from_value("DefaultMessageNotificationLevel", n)
      [] T = "IntegerEnum<IntegrationExpireBehavior>" ->
            IntegerEnum_from_value("IntegrationExpireBehavior", n)
      [] T = "AuditLogRole" -> AuditLogRole_deserialize(n)
      [] T = "Vec<Overwrite>" -> Vec_Overwrite_from_value(n)
      [] T = "AuditLogKindValue" -> AuditLogKindValue_deserialize(n)

AuditLogValues(new, old) ==
    [tag |-> "AuditLogValues", new |-> new, old |-> old]

\* Some of what a conversion gave, or its failure
Ok_Some(r) == IF r.tag = "Ok" THEN Ok(Some(r.v)) ELSE r

\* one side of the values: `Some(n) => Some(serde_json::from_value(n)?)`,
\* `None => None`
side_from_value(T, side) ==
    IF side.tag = "Some" THEN Ok_Some(from_value(T, side.v)) ELSE Ok(None)

\* the two sides, or the first failure among them
AuditLogValues_of(new, old) ==
    IF new.tag # "Ok" THEN new
    ELSE IF old.tag # "Ok" THEN old
    ELSE Ok(AuditLogValues(new.v, old.v))

\* AuditLogValues::new with the two sides exchanged
AuditLogValues_new_swapped(T, old, new) ==
    AuditLogValues_of(side_from_value(T, old), side_from_value(T, new))

\* AuditLogValues::<T>::new
AuditLogValues_new(T, old, new) ==
    AuditLogValues_of(side_from_value(T, new), side_from_value(T, old))

RawAuditLogChange(key, new_value, old_value) ==
    [tag |-> "RawAuditLogChange", key |-> key,
     new_value |-> new_value, old_value |-> old_value]

\* the derived Deserialize of RawAuditLogChange
RawAuditLogChange_deserialize(d) ==
    IF d.tag # "Json" \/ d.kind # "object" THEN Err(DecodeError)
    ELSE LET key == JField(d, "key") IN
         IF key.tag = "Absent" THEN Err(DecodeError)
         ELSE LET key_r == String_deserialize(key) IN
              IF key_r.tag = "Err" THEN key_r
              ELSE Ok(RawAuditLogChange(
                          key_r.v,
                          Option_Value_deserialize(JField(d, "new_value")),
                          Option_Value_deserialize(JField(d, "old_value"))))

\* FromRawAuditLogChangeError::Deserialize, made from a serde_json::Error
FromRawAuditLogChangeError_from(source) ==
    [tag |-> "FromRawAuditLogChangeError", variant |-> "Deserialize",
     source |-> source]

\* FromRawAuditLogChangeError::UnrecognizedKind
UnrecognizedKind(change) ==
    [tag |-> "FromRawAuditLogChangeError", variant |-> "UnrecognizedKind",
     change |-> change]

AuditLogChange(variant, values) ==
    [tag |-> "AuditLogChange", variant |-> variant, values |-> values]

\* the arm of the match on alh.key, "_" for the wildcard arm
AuditLogChange_variant(key) ==
    CASE key = "name" -> "Name"
      [] key = "description" -> "Description"
      [] key = "icon_hash" -> "IconHash"
      [] key = "splash_hash" -> "SplashHash"
      [] key = "discovery_splash_hash" -> "DiscoverySplashHash"
      [] key = "banner_hash" -> "BannerHash"
      [] key = "owner_id" -> "OwnerId"
      [] key = "region" -> "Region"
      [] key = "preferred_locale" -> "PreferredLocale"
      [] key = "afk_channel_id" -> "AfkChannelId"
      [] key = "afk_timeout" -> "AfkTimeout"
      [] key = "rules_channel_id" -> "RulesChannelId"
      [] key = "public_updates_channel_id" -> "PublicUpdatesChannelId"
      [] key = "mfa_level" -> "MfaLevel"
      [] key = "verification_level" -> "VerificationLevel"
      [] key = "explicit_content_filter" -> "ExplicitContentFilter"
      [] key = "default_message_notifications" -> "DefaultMessageNotifications"
      [] key = "vanity_url_code" -> "VanityUrlCode"
      [] key = "$add" -> "RoleAdd"
      [] key = "$remove" -> "RoleRemove"
      [] key = "prune_delete_days" -> "PruneDeleteDays"
      [] key = "widget_enabled" -> "WidgetEnabled"
      [] key = "widget_channel_id" -> "WidgetChannelId"
      [] key = "system_channel_id" -> "SystemChannelId"
      [] key = "position" -> "Position"
      [] key = "topic" -> "Topic"
      [] key = "bitrate" -> "Bitrate"
      [] key = "permission_overwrites" -> "PermissionOverwrites"
      [] key = "nsfw" -> "Nsfw"
      [] key = "application_id" -> "ApplicationId"
      [] key = "rate_limit_per_user" -> "RateLimitPerUser"
      [] key = "permissions" -> "Permissions"
      [] key = "color" -> "Color"
      [] key = "hoist" -> "Hoist"
      [] key = "mentionable" -> "Mentionable"
      [] key = "allow" -> "Allow"
      [] key = "deny" -> "Deny"
      [] key = "code" -> "Code"
      [] key = "channel_id" -> "ChannelId"
      [] key = "inviter_id" -> "InviterId"
      [] key = "max_uses" -> "MaxUses"
      [] key = "uses" -> "Uses"
      [] key = "max_age" -> "MaxAge"
      [] key = "temporary" -> "Temporary"
      [] key = "deaf" -> "Deaf"
      [] key = "mute" -> "Mute"
      [] key = "nick" -> "Nick"
      [] key = "avatar_hash" -> "AvatarHash"
      [] key = "id" -> "Id"
      [] key = "type" -> "Kind"
      [] key = "enable_emoticons" -> "EnableEmoticons"
      [] key = "expire_behavior" -> "ExpireBehavior"
      [] key = "expire_grace_period" -> "ExpireGracePeriod"
      [] key = "user_limit" -> "UserLimit"
      [] OTHER -> "_"

\* the type of the values a variant of AuditLogChange holds
AuditLogChange_T(variant) ==
    CASE variant = "Name" -> "String"
      [] variant = "Description" -> "String"
      [] variant = "IconHash" -> "String"
      [] variant = "SplashHash" -> "String"
      [] variant = "DiscoverySplashHash" -> "String"
      [] variant = "BannerHash" -> "String"
      [] variant = "OwnerId" -> "UserId"
      [] variant = "Region" -> "String"
      [] variant = "PreferredLocale" -> "String"
      [] variant = "AfkChannelId" -> "ChannelId"
      [] variant = "AfkTimeout" -> "u64"
      [] variant = "RulesChannelId" -> "ChannelId"
      [] variant = "PublicUpdatesChannelId" -> "ChannelId"
      [] variant = "MfaLevel" -> "IntegerEnum<MfaLevel>"
      [] variant = "VerificationLevel" -> "IntegerEnum<VerificationLevel>"
      [] variant = "ExplicitContentFilter" -> "IntegerEnum<ExplicitContentFilterLevel>"
      [] variant = "DefaultMessageNotifications" -> "IntegerEnum<DefaultMessageNotificationLevel>"
      [] variant = "VanityUrlCode" -> "String"
      [] variant = "RoleAdd" -> "AuditLogRole"
      [] variant = "RoleRemove" -> "AuditLogRole"
      [] variant = "PruneDeleteDays" -> "u64"
      [] variant = "WidgetEnabled" -> "bool"
      [] variant = "WidgetChannelId" -> "ChannelId"
      [] variant = "SystemChannelId" -> "ChannelId"
      [] variant = "Position" -> "u64"
      [] variant = "Topic" -> "String"
      [] variant = "Bitrate" -> "u64"
      [] variant = "PermissionOverwrites" -> "Vec<Overwrite>"
      [] variant = "Nsfw" -> "bool"
      [] variant = "ApplicationId" -> "ApplicationId"
      [] variant = "RateLimitPerUser" -> "u64"
      [] variant = "Permissions" -> "String"
      [] variant = "Color" -> "u32"
      [] variant = "Hoist" -> "bool"
      [] variant = "Mentionable" -> "bool"
      [] variant = "Allow" -> "String"
      [] variant = "Deny" -> "String"
      [] variant = "Code" -> "String"
      [] variant = "ChannelId" -> "ChannelId"
      [] variant = "InviterId" -> "UserId"
      [] variant = "MaxUses" -> "u64"
      [] variant = "Uses" -> "u64"
      [] variant = "MaxAge" -> "u64"
      [] variant = "Temporary" -> "bool"
      [] variant = "Deaf" -> "bool"
      [] variant = "Mute" -> "bool"
      [] variant = "Nick" -> "String"
      [] variant = "AvatarHash" -> "String"
      [] variant = "Id" -> "AnyId"
      [] variant = "Kind" -> "AuditLogKindValue"
      [] variant = "EnableEmoticons" -> "bool"
      [] variant = "ExpireBehavior" -> "IntegerEnum<IntegrationExpireBehavior>"
      [] variant = "ExpireGracePeriod" -> "u64"
      [] variant = "UserLimit" -> "u64"
      [] OTHER -> "_"

\* the change of a variant and its values, the `?` on the values included
AuditLogChange_of(variant, values) ==
    IF values.tag = "Err" THEN Err(FromRawAuditLogChangeError_from(values.e))
    ELSE IF values.tag = "Panic" THEN values
    ELSE Ok(AuditLogChange(variant, values.v))

\* the arm a raw change is matched by
AuditLogChange_arm(alh, variant) ==
    IF variant = "_" THEN Err(UnrecognizedKind(alh))
    ELSE AuditLogChange_of(variant,
                           AuditLogValues_new(AuditLogChange_T(variant),
                                              alh.old_value, alh.new_value))

\* TryFrom<RawAuditLogChange> for AuditLogChange with the values of an
\* unrecognised change dropped from the error
AuditLogChange_try_from_emptied(alh) ==
    AuditLogChange_arm(IF AuditLogChange_variant(alh.key) = "_"
                       THEN RawAuditLogChange(alh.key, None, None) ELSE alh,
                       AuditLogChange_variant(alh.key))

\* TryFrom<RawAuditLogChange> for AuditLogChange
AuditLogChange_try_from(alh) ==
    AuditLogChange_arm(alh, AuditLogChange_variant(alh.key))

\* an error of the conversion as an error of the decoder
map_err_custom(r) == IF r.tag = "Err" THEN Err(DecodeError) ELSE r

\* Deserialize for AuditLogChange (serde try_from = "RawAuditLogChange"):
\* the raw change is decoded and converted, and an error of the conversion
\* becomes an error of the decoder
AuditLogChange_deserialize(d) ==
    LET raw == RawAuditLogChange_deserialize(d) IN
    IF raw.tag = "Err" THEN raw
    ELSE map_err_custom(AuditLogChange_try_from(raw.v))

AuditLogEntry(id, changes, action_kind) ==
    [tag |-> "AuditLogEntry", id |-> id, changes |-> changes,
     action_kind |-> action_kind]

\* Option::<Vec<AuditLogChange>>::deserialize of a field
Option_Vec_AuditLogChange_deserialize(d) ==
    IF d.tag = "Absent" THEN Ok(None)
    ELSE IF d.kind = "null" THEN Ok(None)
    ELSE IF d.kind # "array" THEN Err(DecodeError)
    ELSE Ok_Some(try_collect([i \in 1..Len(d.items) |->
                                 AuditLogChange_deserialize(d.items[i])]))

\* the fields of a structure, or the first failure among them
AuditLogEntry_of(id, changes, action_kind) ==
    IF id.tag # "Ok" THEN id
    ELSE IF changes.tag # "Ok" THEN changes
    ELSE IF action_kind.tag # "Ok" THEN action_kind
    ELSE Ok(AuditLogEntry(id.v, changes.v, action_kind.v))

\* the derived Deserialize of AuditLogEntry
AuditLogEntry_deserialize(d) ==
    IF d.tag # "Json" \/ d.kind # "object" THEN Err(DecodeError)
    ELSE AuditLogEntry_of(
            required(JField(d, "id"),
                     Id_deserialize("Id<AuditLogEntry>", JField(d, "id"))),
            Option_Vec_AuditLogChange_deserialize(JField(d, "changes")),
            required(JField(d, "action_type"),
                     IntegerEnum_deserialize("AuditLogEvent", JField(d, "action_type"))))

AuditLog(audit_log_entries) ==
    [tag |-> "AuditLog", audit_log_entries |-> audit_log_entries]

\* the entries of an audit log, or the failure among them
AuditLog_of(audit_log_entries) ==
    IF audit_log_entries.tag = "Ok" THEN Ok(AuditLog(audit_log_entries.v))
    ELSE audit_log_entries

\* Vec::<AuditLogEntry>::deserialize of a field
Vec_AuditLogEntry_deserialize(d) ==
    IF d.tag = "Absent" THEN Err(DecodeError)
    ELSE IF d.kind # "array" THEN Err(DecodeError)
    ELSE try_collect([i \in 1..Len(d.items) |->
                         AuditLogEntry_deserialize(d.items[i])])

\* the derived Deserialize of AuditLog
AuditLog_deserialize(d) ==
    IF d.tag # "Json" \/ d.kind # "object" THEN Err(DecodeError)
    ELSE AuditLog_of(Vec_AuditLogEntry_deserialize(JField(d, "audit_log_entries")))

(***************************************************************************)
(* Inputs                                                                  *)
(***************************************************************************)
\* integers that arrive on the wire for an integer enum field
WireIntegers == 0..MaxCode \cup {9999, 65535, 2147483647}

\* JSON payloads that are not a u64
NotU64 == {JNegInt(-1), JString("31"), JNull, JObject}

\* strings that arrive on the wire for a guild feature
WireStrings ==
    {"ANIMATED_ICON", "BANNER", "COMMERCE", "COMMUNITY", "DISCOVERABLE",
     "FEATURABLE", "INVITE_SPLASH", "MEMBER_VERIFICATION_GATE_ENABLED",
     "NEWS", "PARTNERED", "PREVIEW_ENABLED", "VANITY_URL", "VERIFIED",
     "VIP_REGIONS", "WELCOME_SCREEN_ENABLED",
     "FLOOP", "", "Other", "OTHER", "animated_icon", "Animated_Icon",
     "AnimatedIcon", "banner", "Banner", "BANNER ", " BANNER", "BANNERS",
     "ANIMATED-ICON", "news", "VIP_REGION", "verified", "31"}

NotString == {JUInt(0), JNegInt(-1), JNull, JObject}

EnumInputs ==
    [ty : IntegerEnumTypes,
     x : {JUInt(p) : p \in WireIntegers} \cup NotU64]

VariantInputs ==
    UNION { { [ty |-> T, x |-> Variant(v)] : v \in Variants(T) } :
            T \in IntegerEnumTypes }

GuildFeatureInputs ==
    [ty : {"GuildFeature"}, x : {JString(s) : s \in WireStrings} \cup NotString]

\* raw identifiers: every single bit, every single missing bit, small
\* values, the constant of the tests and the constant of the documentation
OneHot(i) == Shl(FromNat(1), i)

BitPositions == 0..(8 * U64Bytes - 1)

EXAMPLE ==
    BinLit(<<0,0,0,0,0,0,1,0,0,1,1,1,0,0,0,1,0,0,0,0,0,1,1,0,0,1,0,1,1,0,1,0,
             1,1,0,0,0,0,0,1,0,0,0,0,0,0,1,0,0,0,0,0,0,0,0,0,0,0,0,0,0,1,1,1>>)

RawSamples ==
    {OneHot(i) : i \in BitPositions}
    \cup {BitNot(OneHot(i)) : i \in BitPositions}
    \cup {FromNat(n) : n \in 0..MaxSmall}
    \cup {BitNot(FromNat(n)) : n \in 0..MaxSmall}
    \cup {EXAMPLE, Lit(<<4,1,7,7,1,9,8,3,4,2,3,1,4,3,9,3,7>>)}

SnowflakeInputs == [ty : {"Snowflake"}, x : {Snowflake(r) : r \in RawSamples}]

\* 2^42 milliseconds: the first timestamp that does not fit above bit 22
TimestampLimit == OneHot(8 * U64Bytes - TimestampShift)

\* points in time, as milliseconds since the Unix epoch, inside the range
\* chrono represents
MillisSamples ==
    {FromNat(n) : n \in 0..MaxSmall}
    \cup {Neg(FromNat(n)) : n \in 1..MaxSmall}
    \cup {Neg(OneHot(i)) : i \in 0..52}
    \cup {CheckedSub(EPOCH, FromNat(n)).v : n \in 1..MaxSmall}
    \cup {WrappingAdd(EPOCH, FromNat(n)) : n \in 0..MaxSmall}
    \cup {WrappingAdd(EPOCH, OneHot(i)) : i \in 0..52}
    \cup {WrappingAdd(EPOCH, CheckedSub(TimestampLimit, FromNat(n)).v) :
            n \in 1..MaxSmall}
    \cup {WrappingAdd(EPOCH, WrappingAdd(TimestampLimit, FromNat(n))) :
            n \in 0..MaxSmall}
    \cup {ChronoMaxMillis, Neg(ChronoMinMillisAbs),
          Utc_ymd_and_hms_milli(2016, 4, 30, 11, 18, 25, 796).millis}

\* nanoseconds below the millisecond
SubMilliNanos == {0, 999999}

DateTimeInputs ==
    [ty : {"Snowflake"},
     x : {DateTime(m, n) : m \in MillisSamples, n \in SubMilliNanos}]

Inputs ==
    EnumInputs \cup VariantInputs \cup GuildFeatureInputs
    \cup SnowflakeInputs \cup DateTimeInputs

\* a u64 and a str in the hands of the caller
U64(v) == [tag |-> "u64", v |-> v]
Text(chars) == [tag |-> "String", chars |-> chars]

\* integers handed to IntegerEnum::custom
CustomInputs == [ty : IntegerEnumTypes, x : {U64(p) : p \in WireIntegers}]

\* texts that are not the decimal rendering of a u64: empty, signs, letters,
\* blanks, fractions, leading zeros, and numbers from 2^64 up
OddTexts ==
    {<<>>, <<"+">>, <<"-">>, <<"+", "5">>, <<"-", "1">>, <<"-", "0">>,
     <<"a">>, <<"1", "a">>, <<"a", "1">>, <<" ", "1">>, <<"1", " ">>,
     <<"1", ".", "5">>, <<"1", "e", "3">>, <<"0", "x", "1", "0">>,
     <<"1", "_", "0">>, <<"0", "0", "7">>,
     <<"1","8","4","4","6","7","4","4","0","7","3","7","0","9","5","5","1","6","1","6">>,
     <<"0","1","8","4","4","6","7","4","4","0","7","3","7","0","9","5","5","1","6","1","5">>,
     <<"9","9","9","9","9","9","9","9","9","9","9","9","9","9","9","9","9","9","9","9">>,
     <<"1","0","0","0","0","0","0","0","0","0","0","0","0","0","0","0","0","0","0","0","0">>,
     <<"-","9","2","2","3","3","7","2","0","3","6","8","5","4","7","7","5","8","0","8">>}

\* texts handed to FromStr for an identifier
IdTexts == {u64_to_string(r) : r \in RawSamples} \cup OddTexts

\* negative integers on the wire
NegativeIntegers ==
    {Neg(FromNat(n)) : n \in 1..MaxSmall} \cup {OneHot(8 * U64Bytes - 1)}

\* JSON payloads that are neither an integer nor a string
NotScalar == {JNull, JObject}

IdInputs ==
    [ty : IdTypes,
     x : {U64(r) : r \in RawSamples}
         \cup {Text(t) : t \in IdTexts}
         \cup {JText(t) : t \in IdTexts}
         \cup {JUInt(r) : r \in RawSamples}
         \cup {JNegInt(i) : i \in NegativeIntegers}
         \cup NotScalar]

\* the other identifier of a comparison
OtherSamples ==
    {FromNat(0), FromNat(1), EXAMPLE, OneHot(8 * U64Bytes - 1),
     BitNot(OneHot(8 * U64Bytes - 1)), BitNot(FromNat(0))}

FlagInputs ==
    [ty : IntegerFlagTypes,
     x : {JUInt(r) : r \in RawSamples \cup {Flags_all("UserFlags")}}
         \cup {JNegInt(i) : i \in NegativeIntegers}
         \cup {JText(<<"3", "1">>)} \cup NotScalar]

TaggedIdInputs ==
    [ty : TaggedIdTypes,
     x : {JIdAndType(id, kind) :
            id \in {JText(<<"1">>), JUInt(EXAMPLE), JText(<<"x">>), JNull,
                   JUInt(FromNat(1)), JText(u64_to_string(EXAMPLE))},
            kind \in {JUInt(k) : k \in 0..3} \cup {JUInt(9999), JText(<<"1">>)}}
         \cup NotScalar]

\* permission overwrite targets and command permission targets in the hands
\* of the caller
TaggedIdValues ==
    {TaggedId("OverwriteId", "Role", Id("Id<Role>", r)) : r \in RawSamples}
    \cup {TaggedId("OverwriteId", "Member", Id("Id<User>", r)) : r \in RawSamples}
    \cup {TaggedId("CommandPermissionId", "Role", Id("Id<Role>", r)) : r \in RawSamples}
    \cup {TaggedId("CommandPermissionId", "User", Id("Id<User>", r)) : r \in RawSamples}

TaggedIdValueInputs == {[ty |-> v.tag, x |-> v] : v \in TaggedIdValues}

\* the named variants of a catch-all enum
CatchAllVariants(T) ==
    {CatchAll_from_u64(T, n).name : n \in WireIntegers} \ {"Other"}

\* catch-all enums on the wire, and in the hands of the caller: every named
\* variant, and Other(x) for the integers of the wire
CatchAllInputs ==
    [ty : CatchAllTypes, x : {JUInt(p) : p \in WireIntegers} \cup NotU64]
    \cup UNION { { [ty |-> T, x |-> CatchAll(T, v)] : v \in CatchAllVariants(T) }
                 \cup { [ty |-> T, x |-> CatchAllOther(T, p)] : p \in WireIntegers } :
                 T \in CatchAllTypes }

\* token texts: empty, of equal byte length and different contents, of equal
\* character count and different byte length, made of asterisks, and equal
\* to a part of the rendering
TokenTexts ==
    {<<>>, <<"a">>, <<"b">>, <<"*">>, <<"a", "b", "c">>, <<"x", "y", "z">>,
     <<"*", "*", "*">>, <<"B", "o", "t">>, <<"U+00E9">>, <<"x", "y">>,
     <<"a", "U+20AC">>, <<"U+1F600">>, <<"a", "b", "c", "d">>,
     <<"U+00E9", "U+00E9">>, <<"U+20AC", "U+20AC">>,
     <<"M", "T", "k", ".", "s", "3", "c", "r", "e", "t">>,
     <<"N", "z", "k", ".", "X", "9", "_", "-", "q", "w">>}

TokenInputs == [ty : {"Token"}, x : {Text(t) : t \in TokenTexts}]

\* the parameters of an audit-log request: each optional one absent or
\* present, the action a named event
AuditLogRequests ==
    [tag : {"AuditLogRequest"},
     guild_id : {Id("Id<Guild>", EXAMPLE)},
     user_id : {None, Some(Id("Id<User>", FromNat(0))),
                Some(Id("Id<User>", EXAMPLE))},
     action_type : {None, Some("GuildUpdate"), Some("RoleUpdate"),
                    Some("MemberKick")},
     before : {None, Some(Id("Id<AuditLogEntry>", BitNot(FromNat(0))))},
     limit : {None, Some(FromNat(0)), Some(FromNat(50)),
              Some(BitNot(FromNat(0)))}]

AuditLogRequestInputs == [ty : {"AuditLogRequest"}, x : AuditLogRequests]

\* guild payloads: the id present or not, `unavailable` absent, null, true,
\* false or no boolean, and the other fields none, all that are required,
\* all but one, every field, or a field no guild has
GuildPayloads ==
    {JGuild(id, unavailable, others) :
        id \in {Absent, JText(<<"4", "1", "7", "7", "1", "9", "8", "3", "4", "2", "3", "1", "4", "3", "9", "3", "7">>),
                JUInt(EXAMPLE), JText(<<"x">>)},
        unavailable \in {Absent, JNull, JBool(TRUE), JBool(FALSE),
                         JUInt(FromNat(1)), JText(<<"t", "r", "u", "e">>)},
        others \in {{}, AvailableGuildRequired \ {"id"},
                    AvailableGuildRequired \ {"id", "name"},
                    AvailableGuildFields \ {"id", "unavailable"},
                    {"name"}, {"foo"},
                    (AvailableGuildRequired \ {"id"}) \cup {"foo"}}}

GuildInputs == [ty : GuildTypes, x : GuildPayloads \cup {JNull, JUInt(EXAMPLE)}]

\* texts that arrive on the wire for a string enum
EnumTexts ==
    {<<"r", "o", "l", "e", "s">>, <<"u", "s", "e", "r", "s">>,
     <<"e", "v", "e", "r", "y", "o", "n", "e">>, <<"0">>, <<"1">>, <<"2">>,
     <<>>, <<"R", "o", "l", "e", "s">>, <<"r", "o", "l", "e">>,
     <<"h", "e", "r", "e">>, <<"0", "1">>, <<" ", "1">>}

StringEnumInputs ==
    [ty : NamedStringEnumTypes,
     x : {JText(t) : t \in EnumTexts} \cup {Text(t) : t \in EnumTexts}
         \cup {JUInt(FromNat(n)) : n \in 0..1}
         \cup {JNegInt(Neg(FromNat(1)))} \cup NotScalar]

StringVariantInputs ==
    UNION { { [ty |-> T, x |-> Variant(v)] : v \in StringVariants(T) } :
            T \in NamedStringEnumTypes }

\* the `permissions` of a role on the wire: the value of the tests, every
\* single bit, every bit but one, all known bits, and texts that are no number
PermissionTexts ==
    {u64_to_string(r) : r \in RawSamples \cup {Flags_all("Permissions")}}
    \cup {<<"6","6","3","2","1","4","7","1">>, <<"a","d","m","i","n">>}
    \cup OddTexts

RoleInputs ==
    [ty : {"Role"},
     x : {JRole(JText(t)) : t \in PermissionTexts}
         \cup {JRole(JUInt(FromNat(8))), JRole(JNull)} \cup NotScalar]

\* the keys of change payloads: every key a change is documented to have,
\* and keys no change has
ChangeKeys ==
    {"name", "description", "icon_hash", "splash_hash",
     "discovery_splash_hash", "banner_hash", "owner_id", "region",
     "preferred_locale", "afk_channel_id", "afk_timeout", "rules_channel_id",
     "public_updates_channel_id", "mfa_level", "verification_level",
     "explicit_content_filter", "default_message_notifications",
     "vanity_url_code", "$add", "$remove", "prune_delete_days",
     "widget_enabled", "widget_channel_id", "system_channel_id", "position",
     "topic", "bitrate", "permission_overwrites", "nsfw", "application_id",
     "rate_limit_per_user", "permissions", "color", "hoist", "mentionable",
     "allow", "deny", "code", "channel_id", "inviter_id", "max_uses", "uses",
     "max_age", "temporary", "deaf", "mute", "nick", "avatar_hash", "id",
     "type", "enable_emoticons", "expire_behavior", "expire_grace_period",
     "user_limit"}
    \cup {"unknown", "Name", "names", ""}

\* one side of a change payload: absent, null, texts, integers, a boolean,
\* a list of overwrites and a role
ChangeSides ==
    {Absent, JNull, JText(<<"a">>), JText(<<"7">>), JUInt(FromNat(1)),
     JUInt(OneHot(32)), JBool(TRUE),
     JArray(<<JOverwrite(JText(<<"7">>), JUInt(0), JText(<<"0">>), JText(<<"8">>))>>),
     JAuditLogRole(JText(<<"7">>), JText(<<"a">>))}

ChangePayloads ==
    {JChange(JString(k), o, n) : k \in ChangeKeys, o \in ChangeSides, n \in ChangeSides}
    \cup {JChange(k, o, n) : k \in {Absent, JNull, JUInt(FromNat(1))},
                             o \in {Absent, JText(<<"a">>)},
                             n \in {Absent, JText(<<"a">>)}}
    \cup {JNull, JUInt(FromNat(1))}

AuditLogChangeInputs == [ty : {"AuditLogChange"}, x : ChangePayloads]

\* the changes of entry payloads: a change of the name, a change with a key
\* no change has, a change whose value is of the wrong type, and a change of
\* the type
EntryChanges ==
    {JChange(JString("name"), JText(<<"a">>), JText(<<"b">>)),
     JChange(JString("unknown"), JText(<<"a">>), JText(<<"b">>)),
     JChange(JString("afk_timeout"), JText(<<"a">>), Absent),
     JChange(JString("type"), JUInt(FromNat(0)), Absent)}

\* sequences of at most two elements of a set
UpToTwo(S) == {<<>>} \cup {<<a>> : a \in S} \cup {<<a, b>> : a \in S, b \in S}

EntryPayloads ==
    {JAuditLogEntry(JText(<<"7">>), JUInt(31), changes) :
        changes \in {JArray(items) : items \in UpToTwo(EntryChanges)}
                    \cup {Absent, JNull, JUInt(FromNat(1))}}
    \cup {JAuditLogEntry(Absent, JUInt(31), Absent), JNull}

AuditLogEntryInputs == [ty : {"AuditLogEntry"}, x : EntryPayloads]

AuditLogPayloads ==
    {JAuditLog(JArray(items)) : items \in UpToTwo(EntryPayloads)}
    \cup {JAuditLog(Absent), JNull}

AuditLogInputs == [ty : {"AuditLog"}, x : AuditLogPayloads]

WideInputs ==
    CustomInputs \cup IdInputs \cup FlagInputs \cup TaggedIdInputs
    \cup TaggedIdValueInputs \cup CatchAllInputs \cup TokenInputs
    \cup AuditLogRequestInputs \cup GuildInputs
    \cup AuditLogChangeInputs \cup AuditLogEntryInputs \cup AuditLogInputs
    \cup StringEnumInputs \cup StringVariantInputs \cup RoleInputs

(***************************************************************************)
(* The state machine                                                       *)
(***************************************************************************)
Init ==
    /\ \E i \in Inputs \cup WideInputs : ty = i.ty /\ input = i.x
    /\ cur = input
    /\ prev = [tag |-> "Start"]
    /\ trail = <<>>

Step(name, result) ==
    /\ Len(trail) < MaxTrail
    /\ trail' = Append(trail, name)
    /\ prev' = cur
    /\ cur' = result
    /\ UNCHANGED <<ty, input>>

\* a wire payload is decoded into an IntegerEnum<ty>
DeserializeIntegerEnum ==
    /\ ty \in IntegerEnumTypes \cup IntegerFlagTypes
    /\ cur.tag = "Json"
    /\ LET r == IntegerEnum_deserialize(ty, cur)
       IN  Step("IntegerEnum::deserialize", IF r.tag = "Ok" THEN r.v ELSE r.e)

\* a request is built from a named variant
FromVariant ==
    /\ ty \in IntegerEnumTypes
    /\ cur.tag = "Variant"
    /\ Step("IntegerEnum::from", IntegerEnum_from(cur.name))

\* the wrapper is encoded
SerializeIntegerEnum ==
    /\ cur.tag = "IntegerEnum"
    /\ Step("IntegerEnum::serialize", IntegerEnum_serialize(ty, cur))

\* the caller asks for the strict interpretation
TryUnwrapIntegerEnum ==
    /\ cur.tag = "IntegerEnum"
    /\ Step("IntegerEnum::try_unwrap", IntegerEnum_try_unwrap(cur))

\* a wire payload is decoded into a GuildFeature
DeserializeGuildFeature ==
    /\ ty = "GuildFeature"
    /\ cur.tag = "Json"
    /\ LET r == GuildFeature_deserialize(cur)
       IN  Step("GuildFeature::deserialize", IF r.tag = "Ok" THEN r.v ELSE r.e)

\* the feature is encoded
SerializeGuildFeature ==
    /\ cur.tag = "GuildFeature"
    /\ Step("GuildFeature::serialize", GuildFeature_serialize(cur))

\* an identifier is built from a point in time
FromDateTime ==
    /\ cur.tag = "DateTime"
    /\ Step("Snowflake::from_date_time", Snowflake_from_date_time(cur))

\* the creation time of an identifier is read
Timestamp ==
    /\ cur.tag = "Snowflake"
    /\ \E r \in Snowflake_timestamp(cur) : Step("Snowflake::timestamp", r)

\* the worker id of an identifier is read
WorkerId ==
    /\ cur.tag = "Snowflake"
    /\ Step("Snowflake::worker_id", [tag |-> "u8", n |-> Snowflake_worker_id(cur)])

\* the process id of an identifier is read
ProcessId ==
    /\ cur.tag = "Snowflake"
    /\ Step("Snowflake::process_id", [tag |-> "u8", n |-> Snowflake_process_id(cur)])

\* the sequence number of an identifier is read
Increment ==
    /\ cur.tag = "Snowflake"
    /\ Step("Snowflake::increment", [tag |-> "u16", n |-> Snowflake_increment(cur)])

\* what a conversion leaves in the hands of the caller: the value of an Ok,
\* the error of an Err, or the panic
Outcome(r) ==
    IF r.tag = "Ok" THEN r.v ELSE IF r.tag = "Err" THEN r.e ELSE r

\* a wrapper is made of an integer the caller chose
CustomIntegerEnum ==
    /\ ty \in IntegerEnumTypes
    /\ cur.tag = "u64"
    /\ Step("IntegerEnum::custom", IntegerEnum_custom(cur.v))

\* the caller asks for the strict interpretation, panicking; a named variant
\* it gets is held as Variant
UnwrapIntegerEnum ==
    /\ cur.tag = "IntegerEnum"
    /\ Step("IntegerEnum::unwrap",
            IF cur.inner.state = "Parsed" /\ ty \in IntegerEnumTypes
            THEN Variant(IntegerEnum_unwrap(cur))
            ELSE IntegerEnum_unwrap(cur))

\* a wire payload is decoded into a StringEnum<ty>
DeserializeStringEnum ==
    /\ ty \in NamedStringEnumTypes
    /\ cur.tag = "Json"
    /\ Step("StringEnum::deserialize", Outcome(StringEnum_deserialize(ty, cur)))

\* a wrapper is made of a text the caller chose
CustomStringEnum ==
    /\ ty \in NamedStringEnumTypes
    /\ cur.tag = "String"
    /\ Step("StringEnum::custom", StringEnum_custom(cur.chars))

\* a wrapper is made of a named variant
FromStringVariant ==
    /\ ty \in NamedStringEnumTypes
    /\ cur.tag = "Variant"
    /\ Step("StringEnum::from", StringEnum_from(cur.name))

SerializeStringEnum ==
    /\ cur.tag = "StringEnum"
    /\ Step("StringEnum::serialize", StringEnum_serialize(ty, cur))

TryUnwrapStringEnum ==
    /\ cur.tag = "StringEnum"
    /\ Step("StringEnum::try_unwrap", StringEnum_try_unwrap(cur))

UnwrapStringEnum ==
    /\ cur.tag = "StringEnum"
    /\ Step("StringEnum::unwrap",
            IF cur.inner.state = "Parsed"
            THEN Variant(StringEnum_unwrap(cur))
            ELSE StringEnum_unwrap(cur))

\* a role is decoded
DeserializeRole ==
    /\ ty = "Role"
    /\ cur.tag = "Json"
    /\ Step("Role::deserialize", Outcome(Role_deserialize(cur)))

TryPermissions ==
    /\ cur.tag = "Role"
    /\ Step("Role::try_permissions", Role_try_permissions(cur))

Permissions ==
    /\ cur.tag = "Role"
    /\ Step("Role::permissions", Role_permissions(cur))

\* a permission overwrite id or a command permission id is decoded
DeserializeTaggedId ==
    /\ ty \in TaggedIdTypes
    /\ cur.tag = "Json"
    /\ Step("TaggedId::deserialize", Outcome(TaggedId_deserialize(ty, cur)))

\* a permission overwrite id or a command permission id is encoded
SerializeTaggedId ==
    /\ cur.tag \in TaggedIdTypes
    /\ Step("TaggedId::serialize", TaggedId_serialize(ty, cur))

\* a catch-all enum is decoded
DeserializeCatchAll ==
    /\ ty \in CatchAllTypes
    /\ cur.tag = "Json"
    /\ Step("CatchAll::deserialize", Outcome(CatchAll_deserialize(ty, cur)))

\* a catch-all enum is encoded
SerializeCatchAll ==
    /\ cur.tag = "CatchAll"
    /\ Step("CatchAll::serialize", CatchAll_serialize(cur))

\* a bot token is made of a text
TokenBot ==
    /\ ty = "Token"
    /\ cur.tag = "String"
    /\ Step("Token::bot", Token_bot(cur.chars))

\* a bearer token is made of a text
TokenBearer ==
    /\ ty = "Token"
    /\ cur.tag = "String"
    /\ Step("Token::bearer", Token_bearer(cur.chars))

\* a token is written with {:?}
DebugToken ==
    /\ cur.tag = "Token"
    /\ Step("Token::fmt", Text(Token_fmt(cur)))

\* the audit log is requested through the method of Discord
GetGuildAuditLogCall ==
    /\ cur.tag = "AuditLogRequest"
    /\ Step("Discord::get_guild_audit_log",
            Text(Discord_get_guild_audit_log(cur.guild_id, cur.user_id,
                     cur.action_type, cur.before, cur.limit)))

\* the request structure is built from the parameters, the action converted
\* by the setter
BuildGetGuildAuditLog ==
    /\ cur.tag = "AuditLogRequest"
    /\ Step("GetGuildAuditLog::builder",
            GetGuildAuditLog(cur.guild_id, cur.user_id,
                IF cur.action_type.tag = "Some"
                THEN Some(IntegerEnum_from(cur.action_type.v)) ELSE None,
                cur.before, cur.limit))

\* the request structure is sent
SendGetGuildAuditLog ==
    /\ cur.tag = "GetGuildAuditLog"
    /\ Step("GetGuildAuditLog::send", Text(GetGuildAuditLog_send(cur)))

\* a guild payload is decoded as a Guild, an AvailableGuild or an
\* UnavailableGuild
DeserializeGuild ==
    /\ ty \in GuildTypes
    /\ cur.tag = "Json"
    /\ Step("Guild::deserialize", Outcome(GuildT_deserialize(ty, cur)))

\* a guild is encoded
SerializeGuild ==
    /\ cur.tag \in GuildTypes
    /\ Step("Guild::serialize", GuildT_serialize(cur))

\* the caller asks whether the guild is unavailable
GuildUnavailable ==
    /\ cur.tag \in GuildTypes
    /\ Step("Guild::unavailable", [tag |-> "bool", b |-> GuildT_unavailable(cur)])

\* an identifier is made of a u64
IdFromU64 ==
    /\ ty \in IdTypes
    /\ cur.tag = "u64"
    /\ Step("Id::from", Id_from_u64(ty, cur.v))

\* the u64 of an identifier is taken
U64FromId ==
    /\ cur.tag \in {"Id", "AnyId"}
    /\ Step("u64::from", U64(u64_from_Id(cur)))

\* an identifier is rendered
IdToString ==
    /\ cur.tag \in {"Id", "AnyId"}
    /\ Step("Id::to_string", Text(Id_to_string(cur)))

\* an identifier is parsed
IdFromStr ==
    /\ ty \in IdTypes
    /\ cur.tag = "String"
    /\ Step("Id::from_str", Outcome(Id_from_str(ty, cur.chars)))

\* the marker of an identifier is erased
AnyIdFromId ==
    /\ cur.tag = "Id"
    /\ Step("AnyId::from", AnyId_from_Id(cur))

\* an erased identifier is given a marker
IdFromAnyId ==
    /\ cur.tag = "AnyId"
    /\ \E T \in IdTypes \ {"AnyId"} : Step("Id::from_any", Id_from_AnyId(T, cur))

\* an identifier is compared with another of its type
CompareId ==
    /\ cur.tag \in {"Id", "AnyId"}
    /\ \E o \in OtherSamples :
          LET other == [cur EXCEPT !.id = o]
          IN  Step("Id::cmp", [tag |-> "Ordering", other |-> o,
                               ordering |-> Id_cmp(cur, other),
                               eq |-> Id_eq(cur, other),
                               same_hash |-> (Id_hash(cur) = Id_hash(other))])

SerializeId ==
    /\ cur.tag \in {"Id", "AnyId"}
    /\ Step("Id::serialize", Id_serialize(cur))

DeserializeId ==
    /\ ty \in IdTypes
    /\ cur.tag = "Json"
    /\ Step("Id::deserialize", Outcome(Id_deserialize(ty, cur)))

\* identifiers the caller compares an identifier x with: fixed ones, and ones
\* that differ from x in the low 22 bits only or in the timestamp only
Neighbours(x) ==
    LET low == CheckedSub(OneHot(TimestampShift), FromNat(1)).v
        floor == BitAnd(x, BitNot(low))
    IN  OtherSamples
        \cup {floor, WrappingAdd(floor, low), WrappingAdd(x, FromNat(1)),
              WrappingAdd(x, OneHot(ProcessShift)), WrappingAdd(x, OneHot(WorkerShift)),
              WrappingAdd(x, OneHot(TimestampShift)),
              WrappingAdd(floor, OneHot(TimestampShift))}

\* two identifiers are compared, and so are their creation times
CompareSnowflake ==
    /\ cur.tag = "Snowflake"
    /\ \E o \in Neighbours(cur.raw) :
       \E a \in Snowflake_timestamp(cur), b \in Snowflake_timestamp(Snowflake(o)) :
          Step("Snowflake::cmp", [tag |-> "Compared", other |-> o,
                                  ordering |-> Id_cmp(AnyId(cur.raw), AnyId(o)),
                                  ts |-> a, other_ts |-> b])

\* a change payload is decoded as a RawAuditLogChange
DeserializeRawAuditLogChange ==
    /\ ty = "AuditLogChange"
    /\ cur.tag = "Json"
    /\ Step("RawAuditLogChange::deserialize",
            Outcome(RawAuditLogChange_deserialize(cur)))

\* a raw change is converted
TryFromRawAuditLogChange ==
    /\ cur.tag = "RawAuditLogChange"
    /\ Step("AuditLogChange::try_from", Outcome(AuditLogChange_try_from(cur)))

\* a change payload is decoded as an AuditLogChange
DeserializeAuditLogChange ==
    /\ ty = "AuditLogChange"
    /\ cur.tag = "Json"
    /\ Step("AuditLogChange::deserialize",
            Outcome(AuditLogChange_deserialize(cur)))

\* an entry payload is decoded
DeserializeAuditLogEntry ==
    /\ ty = "AuditLogEntry"
    /\ cur.tag = "Json"
    /\ Step("AuditLogEntry::deserialize",
            Outcome(AuditLogEntry_deserialize(cur)))

\* an audit-log payload is decoded
DeserializeAuditLog ==
    /\ ty = "AuditLog"
    /\ cur.tag = "Json"
    /\ Step("AuditLog::deserialize", Outcome(AuditLog_deserialize(cur)))

Next ==
    \/ DeserializeIntegerEnum
    \/ FromVariant
    \/ SerializeIntegerEnum
    \/ TryUnwrapIntegerEnum
    \/ DeserializeGuildFeature
    \/ SerializeGuildFeature
    \/ FromDateTime
    \/ Timestamp
    \/ WorkerId
    \/ ProcessId
    \/ Increment
    \/ CustomIntegerEnum
    \/ UnwrapIntegerEnum
    \/ DeserializeStringEnum
    \/ CustomStringEnum
    \/ FromStringVariant
    \/ SerializeStringEnum
    \/ TryUnwrapStringEnum
    \/ UnwrapStringEnum
    \/ DeserializeRole
    \/ TryPermissions
    \/ Permissions
    \/ DeserializeTaggedId
    \/ IdFromU64
    \/ U64FromId
    \/ IdToString
    \/ IdFromStr
    \/ AnyIdFromId
    \/ IdFromAnyId
    \/ CompareId
    \/ SerializeId
    \/ DeserializeId
    \/ CompareSnowflake
    \/ SerializeTaggedId
    \/ DeserializeCatchAll
    \/ SerializeCatchAll
    \/ TokenBot
    \/ TokenBearer
    \/ DebugToken
    \/ GetGuildAuditLogCall
    \/ BuildGetGuildAuditLog
    \/ SendGetGuildAuditLog
    \/ DeserializeGuild
    \/ SerializeGuild
    \/ GuildUnavailable
    \/ DeserializeRawAuditLogChange
    \/ TryFromRawAuditLogChange
    \/ DeserializeAuditLogChange
    \/ DeserializeAuditLogEntry
    \/ DeserializeAuditLog

Spec == Init /\ [][Next]_vars

(***************************************************************************)
(* Properties                                                              *)
(***************************************************************************)
\* the name of the last conversion applied
LastOp == IF trail = <<>> THEN "" ELSE trail[Len(trail)]

\* the integers the audit-log event mapping is documented to recognise
AuditLogEventCodes ==
    {1} \cup (10..15) \cup (20..28) \cup (30..32) \cup (40..42)
        \cup (50..52) \cup (60..62) \cup (72..75) \cup (80..82)

\* the strings the guild-feature mapping recognises
GuildFeatureNames ==
    {"ANIMATED_ICON", "BANNER", "COMMERCE", "COMMUNITY", "DISCOVERABLE",
     "FEATURABLE", "INVITE_SPLASH", "MEMBER_VERIFICATION_GATE_ENABLED",
     "NEWS", "PARTNERED", "PREVIEW_ENABLED", "VANITY_URL", "VERIFIED",
     "VIP_REGIONS", "WELCOME_SCREEN_ENABLED"}

\* the natural number in bits lo .. lo+len-1 of x
RECURSIVE Field(_, _, _)
Field(x, lo, len) ==
    IF len = 0 THEN 0 ELSE Bit(x, lo) + 2 * Field(x, lo + 1, len - 1)

\* the point in time m (an i64 of milliseconds) is at or after EPOCH
AtOrAfterEpoch(m) == TopBit(m) = 0 /\ ~Lt(m, EPOCH)

\* m is at or after EPOCH and fewer than 2^42 milliseconds after it
FitsLayout(m) ==
    AtOrAfterEpoch(m) /\ Lt(CheckedSub(m, EPOCH).v, TimestampLimit)

\* C1: decoding a u64 as IntegerEnum<T> and encoding the result yields that
\* u64 again, whether it was stored as Parsed or as Raw
C1_IntegerEnumRoundTrip ==
    (LastOp = "IntegerEnum::serialize" /\ input.tag = "Json"
        /\ input.kind = "uint")
    => cur = input

C1_Witness ==
    /\ trail = <<"IntegerEnum::deserialize", "IntegerEnum::serialize">>
    /\ ty = "AuditLogEvent"
    /\ input = JUInt(9999)
    /\ prev = IntegerEnum(Raw(9999))
    /\ cur = JUInt(9999)

\* C2: decoding a string as a GuildFeature and encoding the result yields the
\* string again; a string outside the mapping table decodes to Other holding
\* it verbatim, "ANIMATED_ICON" and "BANNER" decode to their named variants
C2_GuildFeatureRoundTrip ==
    /\ (LastOp = "GuildFeature::serialize" /\ input.kind = "string")
       => cur = input
    /\ (trail = <<"GuildFeature::deserialize">> /\ input.kind = "string")
       => /\ input.s \notin GuildFeatureNames => cur = Other(input.s)
          /\ input.s = "ANIMATED_ICON" => cur = Named("AnimatedIcon")
          /\ input.s = "BANNER" => cur = Named("Banner")

C2_Witness ==
    /\ trail = <<"GuildFeature::deserialize", "GuildFeature::serialize">>
    /\ input = JString("FLOOP")
    /\ prev = Other("FLOOP")
    /\ cur = JString("FLOOP")

\* C3: decoding a u64 as IntegerEnum<AuditLogEvent> never fails; 31 decodes
\* to RoleUpdate, an integer outside the mapping decodes to the raw state,
\* and try_unwrap on it is an error whose inner() is the integer
C3_UnknownIntegerTolerated ==
    /\ (ty = "AuditLogEvent" /\ trail = <<"IntegerEnum::deserialize">>
           /\ input.kind = "uint")
       => /\ cur.tag = "IntegerEnum"
          /\ input.n = 31 => cur.inner = Parsed("RoleUpdate")
          /\ input.n \notin AuditLogEventCodes => cur.inner = Raw(input.n)
    /\ (ty = "AuditLogEvent"
           /\ trail = <<"IntegerEnum::deserialize", "IntegerEnum::try_unwrap">>
           /\ input.kind = "uint" /\ input.n \notin AuditLogEventCodes)
       => /\ cur.tag = "Err"
          /\ EnumFromIntegerError_inner(cur.e) = input.n

C3_Witness ==
    /\ ty = "AuditLogEvent"
    /\ trail = <<"IntegerEnum::deserialize", "IntegerEnum::try_unwrap">>
    /\ input = JUInt(9999)
    /\ prev = IntegerEnum(Raw(9999))
    /\ cur = Err(EnumFromIntegerError_new(9999))

\* C4: for AuditLogEvent, ChannelKind and MessageKind no two variants share
\* an integer, encoding a named variant, decoding the integer and interpreting
\* it strictly gives the variant back, and the integers that decode to a
\* known AuditLogEvent are exactly 1, 10..15, 20..28, 30..32, 40..42, 50..52,
\* 60..62, 72..75, 80..82
C4_KnownVariantBijection ==
    /\ trail = <<"IntegerEnum::from", "IntegerEnum::serialize">>
       => \A w \in Variants(ty) \ {input.name} : T_into_u64(ty, w) # cur.n
    /\ trail = <<"IntegerEnum::from", "IntegerEnum::serialize",
                 "IntegerEnum::deserialize", "IntegerEnum::try_unwrap">>
       => cur = Ok(input.name)
    /\ (ty = "AuditLogEvent" /\ trail = <<"IntegerEnum::deserialize">>
           /\ input.kind = "uint")
       => (cur.inner.state = "Parsed" <=> input.n \in AuditLogEventCodes)

C4_Witness ==
    /\ ty = "ChannelKind"
    /\ input = Variant("GuildStageVoice")
    /\ trail = <<"IntegerEnum::from", "IntegerEnum::serialize",
                 "IntegerEnum::deserialize", "IntegerEnum::try_unwrap">>
    /\ prev = IntegerEnum(Parsed("GuildStageVoice"))
    /\ cur = Ok("GuildStageVoice")

\* C5: for a point in time t at or after EPOCH and fewer than 2^42
\* milliseconds after it, timestamp() of from_date_time(t) is t truncated to
\* the millisecond
C5_TimestampInverse ==
    (trail = <<"Snowflake::from_date_time", "Snowflake::timestamp">>
        /\ FitsLayout(input.millis))
    => cur = DateTime(input.millis, 0)

C5_Witness ==
    /\ trail = <<"Snowflake::from_date_time", "Snowflake::timestamp">>
    /\ input.millis = WrappingAdd(EPOCH, OneHot(41))
    /\ input.nanos = 999999
    /\ cur = DateTime(input.millis, 0)

\* C6: from_date_time returns None whenever the milliseconds since EPOCH,
\* shifted left by 22, do not fit in 64 bits (2^42 milliseconds or more)
C6_OverflowGivesNone ==
    (LastOp = "Snowflake::from_date_time" /\ AtOrAfterEpoch(prev.millis)
        /\ ~FitsLayout(prev.millis))
    => cur = None

\* C7: from_date_time returns None for every point in time before EPOCH,
\* before the Unix epoch included
C7_BeforeEpochGivesNone ==
    (LastOp = "Snowflake::from_date_time" /\ ~AtOrAfterEpoch(prev.millis))
    => cur = None

C7_Witness ==
    /\ trail = <<"Snowflake::from_date_time">>
    /\ input = DateTime(Neg(FromNat(1)), 999999)
    /\ cur = None

\* C8: worker_id() is bits 17-21 of the raw value, process_id() bits 12-16,
\* increment() bits 0-11, none of the casts drops a set bit, and timestamp()
\* is (raw div 2^22) + EPOCH milliseconds since the Unix epoch
C8_FieldsByMaskAndShift ==
    /\ LastOp = "Snowflake::worker_id"
       => /\ cur.n = Field(prev.raw, 17, 5)
          /\ worker_id_wide(prev) = FromNat(cur.n)
    /\ LastOp = "Snowflake::process_id"
       => /\ cur.n = Field(prev.raw, 12, 5)
          /\ process_id_wide(prev) = FromNat(cur.n)
    /\ LastOp = "Snowflake::increment"
       => /\ cur.n = Field(prev.raw, 0, 12)
          /\ increment_wide(prev) = FromNat(cur.n)
    /\ LastOp = "Snowflake::timestamp"
       => /\ cur.tag = "DateTime"
          /\ cur.nanos = 0
          /\ FitsLayout(cur.millis)
          /\ Shl(CheckedSub(cur.millis, EPOCH).v, 22)
                = Shl(Shr(prev.raw, 22), 22)

C8_Witness ==
    /\ trail = <<"Snowflake::worker_id">>
    /\ input = Snowflake(BitNot(OneHot(17)))
    /\ cur.n = 30

\* the identifier of the documentation: 41771983423143937
SpecExample == Lit(<<4,1,7,7,1,9,8,3,4,2,3,1,4,3,9,3,7>>)

\* the identifier of the tests: 175928847299117063
CodeExample == Lit(<<1,7,5,9,2,8,8,4,7,2,9,9,1,1,7,0,6,3>>)

\* what the claim expects of the accessors applied to the identifier raw
ExampleFields(raw) ==
    /\ (LastOp = "Snowflake::timestamp" /\ prev.raw = raw)
       => cur = Utc_ymd_and_hms_milli(2016, 4, 30, 11, 18, 25, 796)
    /\ (LastOp = "Snowflake::worker_id" /\ prev.raw = raw) => cur.n = 1
    /\ (LastOp = "Snowflake::process_id" /\ prev.raw = raw) => cur.n = 0
    /\ (LastOp = "Snowflake::increment" /\ prev.raw = raw) => cur.n = 7

\* C9 as stated: the identifier 41771983423143937 has timestamp
\* 2016-04-30T11:18:25.796Z, worker id 1, process id 0 and increment 7
C9_Original == ExampleFields(SpecExample)

\* C9 as amended: the identifier 175928847299117063 has timestamp
\* 2016-04-30T11:18:25.796Z, worker id 1, process id 0 and increment 7
C9_ExampleFields == ExampleFields(CodeExample)

C9_Witness ==
    /\ trail = <<"Snowflake::timestamp">>
    /\ input = Snowflake(EXAMPLE)
    /\ EXAMPLE = CodeExample
    /\ cur = Utc_ymd_and_hms_milli(2016, 4, 30, 11, 18, 25, 796)

\* C10: timestamp() never panics: the sum does not overflow, fits an i64 and
\* is a time chrono represents
C10_TimestampTotal ==
    LastOp = "Snowflake::timestamp" => cur.tag = "DateTime"

C10_Witness ==
    /\ trail = <<"Snowflake::timestamp">>
    /\ input = Snowflake(BitNot(FromNat(0)))
    /\ cur.tag = "DateTime"

\* the digits the characters of a text denote, -1 for a character that is none
DigitValues(chars) == [i \in 1..Len(chars) |-> to_digit(chars[i])]

\* the digits of 2^64 - 1
U64MaxDigits == <<1, 8, 4, 4, 6, 7, 4, 4, 0, 7, 3, 7, 0, 9, 5, 5, 1, 6, 1, 5>>

\* a <= b for two sequences of digits of one length
DigitsLeq(a, b) ==
    \/ a = b
    \/ \E k \in 1..Len(a) : a[k] < b[k] /\ \A j \in 1..(k - 1) : a[j] = b[j]

\* the digits without the leading zeros
RECURSIVE Significant(_)
Significant(ds) ==
    IF ds # <<>> /\ ds[1] = 0 THEN Significant(Tail(ds)) ELSE ds

\* the text is one or more decimal digits and the number they denote is at
\* most 2^64 - 1
DenotesU64(chars) ==
    /\ chars # <<>>
    /\ \A i \in 1..Len(chars) : to_digit(chars[i]) >= 0
    /\ LET ds == Significant(DigitValues(chars))
       IN  \/ Len(ds) < Len(U64MaxDigits)
           \/ Len(ds) = Len(U64MaxDigits) /\ DigitsLeq(ds, U64MaxDigits)

\* the text is the decimal rendering of the u64 v
IsDecimalOf(chars, v) ==
    /\ DenotesU64(chars)
    /\ Significant(DigitValues(chars)) = DigitValues(chars) \/ chars = <<"0">>
    /\ Lit(DigitValues(chars)) = v

\* the comparison of two u64 as numbers: the most significant byte that
\* differs decides
NumCompare(a, b) ==
    IF a = b THEN "Equal"
    ELSE IF \E k \in 1..U64Bytes :
               a[k] < b[k] /\ \A j \in (k + 1)..U64Bytes : a[j] = b[j]
         THEN "Less" ELSE "Greater"

\* C11: rendering the identifier built from a u64 n as a decimal string and
\* parsing the string gives n, and parsing it as an identifier gives the
\* identifier again
C11_DecimalRoundTrip ==
    trail = <<"Id::from", "Id::to_string", "Id::from_str">>
    => /\ IsDecimalOf(prev.chars, input.v)
       /\ u64_from_str(prev.chars) = Ok(input.v)
       /\ cur = Id_new(ty, input.v)
       /\ Id_eq(cur, Id_from_u64(ty, input.v))

C11_Witness ==
    /\ trail = <<"Id::from", "Id::to_string", "Id::from_str">>
    /\ ty = "Id<Role>"
    /\ input = U64(BitNot(FromNat(0)))
    /\ prev = Text(<<"1","8","4","4","6","7","4","4","0","7","3","7","0","9",
                     "5","5","1","6","1","5">>)
    /\ cur = Id("Id<Role>", BitNot(FromNat(0)))

\* C12: equality, ordering and hashing of identifiers depend on the raw u64
\* only: erasing the marker of an identifier built from n gives AnyId(n)
\* whatever the marker was, with the same hash; Id -> AnyId -> Id and
\* AnyId -> Id -> AnyId keep the raw value; comparing Id(a) with Id(b) is
\* comparing a with b
C12_IdentityIsRawValue ==
    /\ (ty # "AnyId" /\ trail = <<"Id::from", "AnyId::from">>)
       => /\ cur = AnyId(input.v)
          /\ Id_hash(cur) = Id_hash(prev)
    /\ (ty # "AnyId" /\ trail = <<"Id::from", "AnyId::from", "Id::from_any">>)
       => /\ cur.tag = "Id" /\ cur.id = input.v
          /\ cur.p = ty => cur = Id(ty, input.v)
    /\ (ty = "AnyId" /\ trail = <<"Id::from", "Id::from_any", "AnyId::from">>)
       => cur = AnyId(input.v)
    /\ LastOp = "Id::cmp"
       => /\ cur.ordering = NumCompare(prev.id, cur.other)
          /\ cur.eq = (prev.id = cur.other)
          /\ cur.same_hash = (prev.id = cur.other)

C12_Witness ==
    /\ trail = <<"Id::from", "Id::cmp">>
    /\ ty = "Id<User>"
    /\ input = U64(OneHot(8 * U64Bytes - 1))
    /\ cur.other = FromNat(1)
    /\ cur.ordering = "Greater"
    /\ ~cur.eq

\* C13: decoding the JSON string of the decimal digits of a u64 n and
\* decoding the JSON integer n both give the identifier of n, and encoding
\* an identifier gives the JSON string of its decimal digits
C13_StringOrIntegerDecode ==
    /\ (trail = <<"Id::deserialize">> /\ input.kind = "uint")
       => cur = Id_new(ty, input.n)
    /\ (trail = <<"Id::deserialize">> /\ input.kind = "string"
           /\ IsDecimalOf(input.chars, Lit(DigitValues(input.chars))))
       => cur = Id_new(ty, Lit(DigitValues(input.chars)))
    /\ LastOp = "Id::serialize"
       => /\ cur.kind = "string"
          /\ IsDecimalOf(cur.chars, prev.id)
    /\ trail = <<"Id::from", "Id::serialize", "Id::deserialize">>
       => cur = Id_new(ty, input.v)

C13_Witness ==
    /\ trail = <<"Id::deserialize", "Id::serialize">>
    /\ ty = "AnyId"
    /\ input = JUInt(EXAMPLE)
    /\ prev = AnyId(EXAMPLE)
    /\ cur = JText(<<"1","7","5","9","2","8","8","4","7","2","9","9","1","1",
                     "7","0","6","3">>)

\* C14: creating an identifier from a text fails when the text is empty, has
\* a character that is no digit, denotes a negative number or a number above
\* 2^64 - 1, and decoding a negative JSON integer as an identifier fails
C14_BadTextRejected ==
    /\ (LastOp = "Id::from_str" /\ ~DenotesU64(prev.chars))
       => cur.tag = "ParseIntError"
    /\ (trail = <<"Id::deserialize">> /\ input.kind = "negint")
       => cur = DecodeError

\* C15: decoding an integer as IntegerEnum<UserFlags> never fails and
\* encoding the result gives the integer again, bits outside the known flags
\* included
C15_UnknownBitsKept ==
    /\ (ty = "UserFlags" /\ trail = <<"IntegerEnum::deserialize">>
           /\ input.kind = "uint")
       => cur.tag = "IntegerEnum"
    /\ (ty = "UserFlags" /\ LastOp = "IntegerEnum::serialize"
           /\ input.kind = "uint")
       => cur = input

C15_Witness ==
    /\ ty = "UserFlags"
    /\ trail = <<"IntegerEnum::deserialize", "IntegerEnum::serialize">>
    /\ input = JUInt(OneHot(4))
    /\ prev = IntegerEnum(Raw(OneHot(4)))
    /\ cur = JUInt(OneHot(4))

\* C16: decoding a permission overwrite id or a command permission id does
\* not panic, whatever its integer `type`
C16_UnknownTypeTolerated ==
    LastOp = "TaggedId::deserialize" => cur.tag # "Panic"

\* the text has no digit
NoDigit(chars) == \A i \in 1..Len(chars) : to_digit(chars[i]) < 0

\* the text is a decimal number with a bit outside the permission flags set
UnknownPermissionBit(chars) ==
    /\ DenotesU64(chars)
    /\ \E i \in (0..(8 * U64Bytes - 1)) \ FlagBits("Permissions") :
          Bit(Lit(DigitValues(chars)), i) = 1

\* C17: a role whose `permissions` is a decimal number with a bit outside the
\* known flags, or is no number at all, decodes; try_permissions() on it is
\* an error whose inner text is the string, and permissions() panics
C17_RoleStrictAccessorFails ==
    /\ (trail = <<"Role::deserialize">> /\ "permissions" \in DOMAIN input
           /\ input.permissions.kind = "string")
       => cur.tag = "Role"
    /\ (Len(trail) = 2 /\ trail[1] = "Role::deserialize" /\ prev.tag = "Role"
           /\ (UnknownPermissionBit(input.permissions.chars)
                 \/ NoDigit(input.permissions.chars)))
       => /\ LastOp = "Role::try_permissions"
             => /\ cur.tag = "Err"
                /\ ParseEnumError_into_inner(cur.e) = input.permissions.chars
          /\ LastOp = "Role::permissions" => cur.tag = "Panic"
    /\ LastOp = "Role::try_permissions" => cur.tag \in {"Ok", "Err"}

C17_Witness ==
    /\ trail = <<"Role::deserialize", "Role::try_permissions">>
    /\ input = JRole(JText(<<"8","5","8","9","9","3","4","5","9","2">>))
    /\ prev = Role(StringEnum(Raw(<<"8","5","8","9","9","3","4","5","9","2">>)))
    /\ cur = Err(ParseEnumError_new(<<"8","5","8","9","9","3","4","5","9","2">>))

\* C18: decoding a payload of the wrong wire kind is a decode error: a
\* string, an object, null or a negative integer for an IntegerEnum, a
\* number, an object or null for a StringEnum
C18_WrongKindFails ==
    /\ (trail = <<"IntegerEnum::deserialize">>
           /\ input.kind \in {"string", "object", "null", "negint"})
       => cur = DecodeError
    /\ (trail = <<"StringEnum::deserialize">>
           /\ input.kind \in {"uint", "negint", "object", "null"})
       => cur = DecodeError

C18_Witness ==
    /\ trail = <<"StringEnum::deserialize">>
    /\ ty = "MentionKind"
    /\ input = JObject
    /\ cur = DecodeError

\* C19: a wrapper made of a named variant v is in the parsed state:
\* try_unwrap() is Ok(v), unwrap() is v, and it is encoded as the wire
\* primitive of v
C19_FromVariantIsKnown ==
    /\ trail = <<"IntegerEnum::from">> => cur = IntegerEnum(Parsed(input.name))
    /\ trail = <<"IntegerEnum::from", "IntegerEnum::try_unwrap">>
       => cur = Ok(input.name)
    /\ trail = <<"IntegerEnum::from", "IntegerEnum::unwrap">> => cur = input
    /\ trail = <<"IntegerEnum::from", "IntegerEnum::serialize">>
       => cur = JUInt(T_into_u64(ty, input.name))
    /\ trail = <<"StringEnum::from">> => cur = StringEnum(Parsed(input.name))
    /\ trail = <<"StringEnum::from", "StringEnum::try_unwrap">>
       => cur = Ok(input.name)
    /\ trail = <<"StringEnum::from", "StringEnum::unwrap">> => cur = input
    /\ trail = <<"StringEnum::from", "StringEnum::serialize">>
       => cur = JText(T_as_ref(ty, input.name))

C19_Witness ==
    /\ trail = <<"StringEnum::from", "StringEnum::serialize">>
    /\ ty = "MentionKind"
    /\ input = Variant("Everyone")
    /\ prev = StringEnum(Parsed("Everyone"))
    /\ cur = JText(<<"e", "v", "e", "r", "y", "o", "n", "e">>)

\* C20: no wrapper is in the raw state with a primitive that the mapping
\* table of its type recognises
C20_RawOnlyIfUnrecognised ==
    /\ (cur.tag = "IntegerEnum" /\ cur.inner.state = "Raw")
       => T_try_from(ty, cur.inner.r).tag = "Err"
    /\ (cur.tag = "StringEnum" /\ cur.inner.state = "Raw")
       => T_from_str(ty, cur.inner.r).tag = "Err"

\* the name of the conversion applied before the last one
PrevOp == IF Len(trail) < 2 THEN "" ELSE trail[Len(trail) - 1]

\* the accessors of the three low fields of an identifier
LowFieldAccessors ==
    {"Snowflake::worker_id", "Snowflake::process_id", "Snowflake::increment"}

\* C21: an identifier that from_date_time returns has its low 22 bits zero:
\* worker_id(), process_id() and increment() of it are 0
C21_LowBitsZero ==
    /\ (LastOp = "Snowflake::from_date_time" /\ cur.tag = "Snowflake")
       => Field(cur.raw, 0, TimestampShift) = 0
    /\ (PrevOp = "Snowflake::from_date_time" /\ LastOp \in LowFieldAccessors)
       => cur.n = 0

C21_Witness ==
    /\ trail = <<"Snowflake::from_date_time", "Snowflake::worker_id">>
    /\ input = DateTime(WrappingAdd(EPOCH, FromNat(1)), 999999)
    /\ prev = Snowflake(OneHot(TimestampShift))
    /\ cur.n = 0

\* x < y on i64
SignedLt(x, y) ==
    IF TopBit(x) # TopBit(y) THEN TopBit(x) = 1 ELSE Lt(x, y)

\* the point in time a is before the point in time b
Before(a, b) ==
    \/ SignedLt(a.millis, b.millis)
    \/ a.millis = b.millis /\ a.nanos < b.nanos

\* C28: the order of identifiers agrees with their creation time: a <= b
\* implies a.timestamp() <= b.timestamp(), and a.timestamp() < b.timestamp()
\* implies a < b, whatever the low 22 bits
C28_OrderAgreesWithTime ==
    LastOp = "Snowflake::cmp"
    => /\ cur.ts.tag = "DateTime"
       /\ cur.other_ts.tag = "DateTime"
       /\ cur.ordering \in {"Less", "Equal"} => ~Before(cur.other_ts, cur.ts)
       /\ Before(cur.ts, cur.other_ts) => cur.ordering = "Less"

C28_Witness ==
    /\ trail = <<"Snowflake::cmp">>
    /\ input = Snowflake(EXAMPLE)
    /\ cur.other = WrappingAdd(EXAMPLE, OneHot(WorkerShift))
    /\ cur.ordering = "Less"
    /\ cur.ts = cur.other_ts

\* C29: for every identifier id, from_date_time(id.timestamp()) is the
\* identifier j that is id with its low 22 bits cleared: j <= id,
\* j.timestamp() = id.timestamp(), and no identifier with that timestamp is
\* below j
C29_FloorOfIdentifier ==
    /\ trail = <<"Snowflake::timestamp", "Snowflake::from_date_time">>
       => /\ cur.tag = "Snowflake"
          /\ cur.raw = Shl(Shr(input.raw, TimestampShift), TimestampShift)
          /\ Field(cur.raw, 0, TimestampShift) = 0
          /\ ~Lt(input.raw, cur.raw)
          /\ \A k \in RawSamples \cup Neighbours(input.raw) :
                Snowflake_timestamp(Snowflake(k)) = Snowflake_timestamp(input)
                => ~Lt(k, cur.raw)
    /\ trail = <<"Snowflake::timestamp", "Snowflake::from_date_time",
                 "Snowflake::timestamp">>
       => cur \in Snowflake_timestamp(input)

C29_Witness ==
    /\ trail = <<"Snowflake::timestamp", "Snowflake::from_date_time">>
    /\ input = Snowflake(EXAMPLE)
    /\ prev = Utc_ymd_and_hms_milli(2016, 4, 30, 11, 18, 25, 796)
    /\ cur = Snowflake(BitAnd(EXAMPLE, BitNot(FromNat(4194303))))
    /\ cur # input

\* the integer `type` the wire format gives to a variant of a tagged id
WireType(T, variant) ==
    CASE T = "OverwriteId" /\ variant = "Role" -> 0
      [] T = "OverwriteId" /\ variant = "Member" -> 1
      [] T = "CommandPermissionId" /\ variant = "Role" -> 1
      [] T = "CommandPermissionId" /\ variant = "User" -> 2

\* the variants of a tagged id and the marker of the identifier each holds
TaggedVariants(T) ==
    IF T = "OverwriteId"
    THEN {<<"Role", "Id<Role>">>, <<"Member", "Id<User>">>}
    ELSE {<<"Role", "Id<Role>">>, <<"User", "Id<User>">>}

\* C26: a permission overwrite target and a command permission target are
\* written as their raw id with type 0 / 1 resp. 1 / 2, decoding what was
\* written gives the value back, and the id is accepted as a JSON string and
\* as a JSON integer
C26_TaggedIdRoundTrip ==
    /\ LastOp = "TaggedId::serialize"
       => cur = JIdAndType(JText(u64_to_string(prev.id.id)),
                           JUInt(WireType(ty, prev.variant)))
    /\ trail = <<"TaggedId::serialize", "TaggedId::deserialize">>
       => cur = input
    /\ trail = <<"TaggedId::deserialize", "TaggedId::serialize",
                 "TaggedId::deserialize">>
       => cur = Outcome(TaggedId_deserialize(ty, input))
    /\ (trail = <<"TaggedId::deserialize">> /\ input.kind = "object"
          /\ {"id", "type"} \subseteq DOMAIN input)
       => \A v \in TaggedVariants(ty) :
            /\ (input.type = JUInt(WireType(ty, v[1])) /\ input.id.kind = "uint")
               => cur = TaggedId(ty, v[1], Id(v[2], input.id.n))
            /\ \A r \in {FromNat(1), EXAMPLE} :
                 (input.type = JUInt(WireType(ty, v[1]))
                    /\ input.id = JText(u64_to_string(r)))
                 => cur = TaggedId(ty, v[1], Id(v[2], r))

C26_Witness ==
    /\ trail = <<"TaggedId::serialize", "TaggedId::deserialize">>
    /\ ty = "CommandPermissionId"
    /\ input = TaggedId("CommandPermissionId", "User", Id("Id<User>", EXAMPLE))
    /\ prev = JIdAndType(JText(u64_to_string(EXAMPLE)), JUInt(2))
    /\ cur = input

\* the integer p is the code of a named variant of the catch-all enum T
NamedCode(T, p) == CatchAll_from_u64(T, p).name # "Other"

\* C27: every value of a catch-all enum, Other(x) for any x included, comes
\* back from encoding and decoding, and decoding never gives Other(p) for the
\* code p of a named variant
C27_CatchAllRoundTrip ==
    /\ trail = <<"CatchAll::serialize", "CatchAll::deserialize">>
       => cur = input
    /\ (LastOp = "CatchAll::deserialize" /\ cur.tag = "CatchAll"
          /\ cur.name = "Other")
       => \A v \in CatchAllVariants(ty) :
             u64_from_CatchAll(CatchAll(ty, v)) # cur.other

\* the text part occurs in the text whole as a run of consecutive characters
Contains(whole, part) ==
    \E i \in 0..(Len(whole) - Len(part)) :
       SubSeq(whole, i + 1, i + Len(part)) = part

\* the characters a Debug rendering of a token is made of whatever the token
RenderingAlphabet ==
    {"T", "o", "k", "e", "n", "(", ")", "B", "t", "a", "r", "*"}

\* C30: the Debug rendering of a token is the name of its kind around one
\* asterisk per byte of the token text: it does not contain the text, and
\* tokens of the same kind and byte length render identically
C30_TokenObscured ==
    LastOp = "Token::fmt"
    => /\ \E n \in 0..(4 * Len(prev.token)) :
            /\ n = str_len(prev.token)
            /\ cur.chars =
                 <<"T", "o", "k", "e", "n", "(">>
                 \o (IF PrevOp = "Token::bot" THEN <<"B", "o", "t">>
                     ELSE <<"B", "e", "a", "r", "e", "r">>)
                 \o <<"(">> \o [i \in 1..n |-> "*"] \o <<")", ")">>
       /\ (\E i \in 1..Len(prev.token) : prev.token[i] \notin RenderingAlphabet)
          => ~Contains(cur.chars, prev.token)
       /\ \A t \in TokenTexts :
            str_len(t) = str_len(prev.token)
            => Token_fmt(InnerToken(prev.kind, t)) = cur.chars

C30_Witness ==
    /\ trail = <<"Token::bearer", "Token::fmt">>
    /\ input = Text(<<"a", "U+20AC">>)
    /\ cur = Text(<<"T", "o", "k", "e", "n", "(", "B", "e", "a", "r", "e", "r",
                    "(", "*", "*", "*", "*", ")", ")">>)
    /\ Token_fmt(Token_bearer(<<"a", "b", "c", "d">>)) = cur.chars

\* the texts between the occurrences of the character sep in txt
RECURSIVE Split(_, _)
Split(txt, sep) ==
    IF \A i \in 1..Len(txt) : txt[i] # sep THEN <<txt>>
    ELSE LET i == CHOOSE k \in 1..Len(txt) :
                    txt[k] = sep /\ \A j \in 1..(k - 1) : txt[j] # sep
         IN  <<SubSeq(txt, 1, i - 1)>> \o Split(SubSeq(txt, i + 1, Len(txt)), sep)

\* the decimal numeral of a natural number
RECURSIVE Numeral(_)
Numeral(n) ==
    IF n < 10 THEN <<DecimalDigits[n + 1]>>
    ELSE Numeral(n \div 10) \o <<DecimalDigits[(n % 10) + 1]>>

\* the query items the parameters r of an audit-log request call for
ExpectedItems(r) ==
    (IF r.user_id = None THEN <<>>
     ELSE <<<<"u", "s", "e", "r", "_", "i", "d">> \o <<"=">> \o u64_to_string(r.user_id.v.id)>>)
    \o (IF r.action_type = None THEN <<>>
        ELSE <<<<"a", "c", "t", "i", "o", "n", "_", "t", "y", "p", "e">> \o <<"=">>
               \o Numeral(CHOOSE c \in AuditLogEventCodes :
                              AuditLogEvent_try_from(c) = Ok(r.action_type.v))>>)
    \o (IF r.before = None THEN <<>>
        ELSE <<<<"b", "e", "f", "o", "r", "e">> \o <<"=">> \o u64_to_string(r.before.v.id)>>)
    \o (IF r.limit = None THEN <<>>
        ELSE <<<<"l", "i", "m", "i", "t">> \o <<"=">> \o u64_to_string(r.limit.v)>>)

\* the path is the one the parameters r call for
PathFor(path, r) ==
    LET parts == Split(path, "?")
        base == <<"g", "u", "i", "l", "d", "s", "/">> \o u64_to_string(r.guild_id.id) \o <<"/", "a", "u", "d", "i", "t", "-", "l", "o", "g", "s">>
    IN  /\ parts[1] = base
        /\ IF ExpectedItems(r) = <<>> THEN path = base
           ELSE /\ Len(parts) = 2
                /\ Split(parts[2], "&") = ExpectedItems(r)

\* C25: the audit-log request path is guilds/{guild_id}/audit-logs, then,
\* only if a parameter is present, a question mark and the present
\* parameters in the order user_id, action_type, before, limit joined by &,
\* action_type being the integer code of the event; the method of Discord
\* and the request structure build the same path
C25_AuditLogPath ==
    /\ LastOp = "Discord::get_guild_audit_log" => PathFor(cur.chars, prev)
    /\ trail = <<"GetGuildAuditLog::builder", "GetGuildAuditLog::send">>
       => /\ PathFor(cur.chars, input)
          /\ cur.chars = Discord_get_guild_audit_log(input.guild_id,
                             input.user_id, input.action_type, input.before,
                             input.limit)

C25_Witness ==
    /\ trail = <<"GetGuildAuditLog::builder", "GetGuildAuditLog::send">>
    /\ input.user_id = None
    /\ input.action_type = Some("RoleUpdate")
    /\ input.before = None
    /\ input.limit = Some(FromNat(50))
    /\ cur.chars = <<"g", "u", "i", "l", "d", "s", "/">> \o <<"1", "7", "5", "9", "2", "8", "8", "4", "7", "2", "9", "9", "1", "1", "7", "0", "6", "3">> \o <<"/", "a", "u", "d", "i", "t", "-", "l", "o", "g", "s">>
                   \o <<"?", "a", "c", "t", "i", "o", "n", "_", "t", "y", "p", "e", "=", "3", "1", "&", "l", "i", "m", "i", "t", "=", "5", "0">>

\* the variant of a decoded guild: of a Guild the one it holds, of the two
\* structures the structure itself
GuildVariant(g) ==
    CASE g.tag = "Guild" -> g.variant
      [] g.tag = "AvailableGuild" -> "Available"
      [] g.tag = "UnavailableGuild" -> "Unavailable"
      [] OTHER -> "none"

\* C22: a payload decodes as UnavailableGuild only if its fields are exactly
\* id and unavailable = true, as AvailableGuild only if unavailable is
\* absent, null or false; UnavailableGuild with unavailable = false and
\* AvailableGuild with unavailable = true fail; unavailable() is true
\* exactly for the Unavailable variant; encoding writes true resp. false
C22_GuildAvailability ==
    /\ (trail = <<"Guild::deserialize">> /\ GuildVariant(cur) = "Unavailable")
       => /\ input.others = {}
          /\ input.id # Absent
          /\ input.unavailable = JBool(TRUE)
    /\ (trail = <<"Guild::deserialize">> /\ GuildVariant(cur) = "Available")
       => input.unavailable \in {Absent, JNull, JBool(FALSE)}
    /\ (trail = <<"Guild::deserialize">> /\ ty = "UnavailableGuild"
          /\ input.kind = "object" /\ input.unavailable = JBool(FALSE))
       => cur = DecodeError
    /\ (trail = <<"Guild::deserialize">> /\ ty = "AvailableGuild"
          /\ input.kind = "object" /\ input.unavailable = JBool(TRUE))
       => cur = DecodeError
    /\ LastOp = "Guild::unavailable"
       => cur.b = (GuildVariant(prev) = "Unavailable")
    /\ LastOp = "Guild::serialize"
       => cur.unavailable = JBool(GuildVariant(prev) = "Unavailable")

C22_Witness ==
    /\ ty = "Guild"
    /\ trail = <<"Guild::deserialize", "Guild::serialize">>
    /\ input = JGuild(JText(<<"4", "1", "7", "7", "1", "9", "8", "3", "4", "2", "3", "1", "4", "3", "9", "3", "7">>),
                      JBool(TRUE), {})
    /\ prev = Guild("Unavailable",
                    UnavailableGuild(Id("Id<Guild>", SpecExample)))
    /\ cur = input

\* the keys a change is documented to have
DocumentedKeys == ChangeKeys \ {"unknown", "Name", "names", ""}

\* a key and the variant that carries its name: the key in camel case, the
\* $add and $remove of a member's roles, and `type`, which the library calls
\* kind throughout
NamedAfter ==
    {<<"name", "Name">>, <<"description", "Description">>,
     <<"icon_hash", "IconHash">>, <<"splash_hash", "SplashHash">>,
     <<"discovery_splash_hash", "DiscoverySplashHash">>,
     <<"banner_hash", "BannerHash">>, <<"owner_id", "OwnerId">>,
     <<"region", "Region">>, <<"preferred_locale", "PreferredLocale">>,
     <<"afk_channel_id", "AfkChannelId">>, <<"afk_timeout", "AfkTimeout">>,
     <<"rules_channel_id", "RulesChannelId">>,
     <<"public_updates_channel_id", "PublicUpdatesChannelId">>,
     <<"mfa_level", "MfaLevel">>,
     <<"verification_level", "VerificationLevel">>,
     <<"explicit_content_filter", "ExplicitContentFilter">>,
     <<"default_message_notifications", "DefaultMessageNotifications">>,
     <<"vanity_url_code", "VanityUrlCode">>,
     <<"prune_delete_days", "PruneDeleteDays">>,
     <<"widget_enabled", "WidgetEnabled">>,
     <<"widget_channel_id", "WidgetChannelId">>,
     <<"system_channel_id", "SystemChannelId">>, <<"position", "Position">>,
     <<"topic", "Topic">>, <<"bitrate", "Bitrate">>,
     <<"permission_overwrites", "PermissionOverwrites">>, <<"nsfw", "Nsfw">>,
     <<"application_id", "ApplicationId">>,
     <<"rate_limit_per_user", "RateLimitPerUser">>,
     <<"permissions", "Permissions">>, <<"color", "Color">>,
     <<"hoist", "Hoist">>, <<"mentionable", "Mentionable">>,
     <<"allow", "Allow">>, <<"deny", "Deny">>, <<"code", "Code">>,
     <<"channel_id", "ChannelId">>, <<"inviter_id", "InviterId">>,
     <<"max_uses", "MaxUses">>, <<"uses", "Uses">>, <<"max_age", "MaxAge">>,
     <<"temporary", "Temporary">>, <<"deaf", "Deaf">>, <<"mute", "Mute">>,
     <<"nick", "Nick">>, <<"avatar_hash", "AvatarHash">>, <<"id", "Id">>,
     <<"enable_emoticons", "EnableEmoticons">>,
     <<"expire_behavior", "ExpireBehavior">>,
     <<"expire_grace_period", "ExpireGracePeriod">>,
     <<"user_limit", "UserLimit">>}
    \cup {<<"$add", "RoleAdd">>, <<"$remove", "RoleRemove">>, <<"type", "Kind">>}

\* the type of the values of the change with this key
TypeOfKey(key) == AuditLogChange_T(AuditLogChange_variant(key))

\* the JSON types a value of type T is written in
JsonKinds(T) ==
    CASE T = "String" -> {"string"}
      [] T \in {"u64", "u32"} -> {"uint"}
      [] T = "bool" -> {"bool"}
      [] T \in {"UserId", "ChannelId", "ApplicationId", "AnyId"} ->
            {"string", "uint"}
      [] T = "AuditLogRole" -> {"object"}
      [] T = "Vec<Overwrite>" -> {"array"}
      [] T = "AuditLogKindValue" -> {"uint", "string"}
      [] OTHER -> {"uint"}

\* the raw change has a value, on either side, of a JSON type its key does
\* not take
WrongJsonType(raw) ==
    \E side \in {raw.old_value, raw.new_value} :
        side.tag = "Some" /\ side.v.kind \notin JsonKinds(TypeOfKey(raw.key))

\* the change payload has a key no change is documented to have
UnknownKeyPayload(d) ==
    /\ d.kind = "object"
    /\ d.key.tag = "Json"
    /\ d.key.kind = "string"
    /\ d.key.s \notin DocumentedKeys

\* the entry payload has a change with an unknown key
UnknownKeyInEntry(d) ==
    /\ d.kind = "object"
    /\ d.changes.tag = "Json"
    /\ d.changes.kind = "array"
    /\ \E i \in 1..Len(d.changes.items) : UnknownKeyPayload(d.changes.items[i])

\* C23: a raw change with an unrecognised key fails with UnrecognizedKind
\* carrying the raw change as it was and gives no AuditLogChange; decoding
\* a change, an entry or an audit log that contains such a change fails;
\* a recognised key with a value of the wrong JSON type fails with the
\* Deserialize error
C23_UnrecognisedKeyFails ==
    /\ (LastOp = "AuditLogChange::try_from" /\ prev.key \notin DocumentedKeys)
       => cur = UnrecognizedKind(prev)
    /\ (trail = <<"RawAuditLogChange::deserialize", "AuditLogChange::try_from">>
          /\ prev.key \notin DocumentedKeys)
       => /\ cur.change.key = input.key.s
          /\ cur.change.old_value =
                IF input.old_value \in {Absent, JNull} THEN None
                ELSE Some(input.old_value)
          /\ cur.change.new_value =
                IF input.new_value \in {Absent, JNull} THEN None
                ELSE Some(input.new_value)
    /\ (trail = <<"AuditLogChange::deserialize">> /\ UnknownKeyPayload(input))
       => cur = DecodeError
    /\ (trail = <<"AuditLogEntry::deserialize">> /\ UnknownKeyInEntry(input))
       => cur = DecodeError
    /\ (trail = <<"AuditLog::deserialize">>
          /\ input.kind = "object"
          /\ input.audit_log_entries.tag = "Json"
          /\ \E i \in 1..Len(input.audit_log_entries.items) :
                UnknownKeyInEntry(input.audit_log_entries.items[i]))
       => cur = DecodeError
    /\ (LastOp = "AuditLogChange::try_from" /\ prev.key \in DocumentedKeys
          /\ WrongJsonType(prev))
       => /\ cur.tag = "FromRawAuditLogChangeError"
          /\ cur.variant = "Deserialize"

C23_Witness ==
    /\ ty = "AuditLogChange"
    /\ trail = <<"RawAuditLogChange::deserialize", "AuditLogChange::try_from">>
    /\ input = JChange(JString("unknown"), JText(<<"a">>), JText(<<"7">>))
    /\ cur = UnrecognizedKind(RawAuditLogChange("unknown",
                                                Some(JText(<<"7">>)),
                                                Some(JText(<<"a">>))))

\* one side of the values of a change: None when the payload does not have
\* it, the decoded value when it has
SideOf(key, d) ==
    IF d \in {Absent, JNull} THEN None
    ELSE Some(Outcome(from_value(TypeOfKey(key), d)))

\* C24: the change of a recognised key is the variant named after the key,
\* with the old_value of the payload as old and its new_value as new; a side
\* the payload does not have is None, and the conversion fails only if a
\* side the payload has does not decode
C24_SidesKept ==
    /\ (LastOp = "AuditLogChange::try_from" /\ prev.key \in DocumentedKeys)
       => IF cur.tag = "AuditLogChange"
          THEN /\ <<prev.key, cur.variant>> \in NamedAfter
               /\ prev.old_value = None => cur.values.old = None
               /\ prev.new_value = None => cur.values.new = None
               /\ prev.old_value # None
                  => cur.values.old =
                        Some(Outcome(from_value(TypeOfKey(prev.key), prev.old_value.v)))
               /\ prev.new_value # None
                  => cur.values.new =
                        Some(Outcome(from_value(TypeOfKey(prev.key), prev.new_value.v)))
          ELSE \E side \in {prev.old_value, prev.new_value} :
                  /\ side # None
                  /\ from_value(TypeOfKey(prev.key), side.v).tag # "Ok"
    /\ (trail = <<"AuditLogChange::deserialize">> /\ cur.tag = "AuditLogChange")
       => /\ <<input.key.s, cur.variant>> \in NamedAfter
          /\ cur.values.old = SideOf(input.key.s, input.old_value)
          /\ cur.values.new = SideOf(input.key.s, input.new_value)

C24_Witness ==
    /\ ty = "AuditLogChange"
    /\ trail = <<"AuditLogChange::deserialize">>
    /\ input = JChange(JString("afk_timeout"), Absent, JUInt(FromNat(1)))
    /\ cur = AuditLogChange("AfkTimeout",
                            AuditLogValues(Some(FromNat(1)), None))

====
